---- MODULE Spec2Model ----
(***************************************************************************)
(* The quota ledger of cagen-quota: QuotaService (internal/services) over  *)
(* the PostgreSQL tables quotas, quota_usage and quota_audit_logs, the     *)
(* transaction wrapper DB.WithTransaction and the auth service client.     *)
(*                                                                         *)
(* Every request is a process that runs one QuotaService method.  A        *)
(* transaction buffers its writes (READ COMMITTED: nobody else sees them)  *)
(* and holds the row locks it took until it commits or rolls back.         *)
(***************************************************************************)
EXTENDS Integers, Sequences, FiniteSets, TLC

\* ------------------------------------------------------------------ bounds
NumProcs == 2        \* concurrent requests
MaxQuotas == 3       \* quota ids that can be generated
MaxCommits == 3      \* audit rows committed in one behaviour

Procs == 1..NumProcs
QuotaIds == 1..MaxQuotas

\* ------------------------------------------------------- program constants
QuotaTypeOrganization == "organization"
QuotaTypeTeam == "team"
QuotaStatusActive == "active"
QuotaStatusSuspended == "suspended"
QuotaStatusDeleted == "deleted"
OperationAllocate == "allocate"
OperationDeallocate == "deallocate"
QuotaPermissionRead == "read"
QuotaPermissionAdmin == "admin"

\* nil of a *string / of parent_quota_id
Nil == "nil"
NoQuota == 0

\* ------------------------------------------------------------ input domains
\* auth.UserInfo: the resolved actor (UserID, OrganizationID)
User1 == [UserID |-> "u1", OrganizationID |-> "o1"]
User2 == [UserID |-> "u2", OrganizationID |-> "o2"]

\* what CheckPermission returns: (true, nil), (false, nil), (false, err)
Allow == "allow"
Deny == "deny"
CheckFailed == "error"

\* The inputs requests are drawn from: the actors, the <<type, team_id>> of a
\* CreateQuota request and its total_mb, the <<type, target_id>> of an
\* AllocateQuota request, its allocate_mb and admin_user_ids, the usage_mb of a
\* usage request, the answers of CheckPermission, and the outcomes of a storage
\* call or of a CreateResource call (TRUE it succeeds, FALSE it fails); commits
\* is the number of committed audit rows from which no further request starts;
\* ticks says whether the database clock is read fine enough to tell two
\* instants apart (FALSE: every reading is the same instant).
Inputs(users, creates, totals, allocates, allocs, admins, usages, answers, okValues, commits, ticks) ==
    [users |-> users, creates |-> creates, totals |-> totals, allocates |-> allocates,
     allocs |-> allocs, admins |-> admins, usages |-> usages, answers |-> answers,
     okValues |-> okValues, commits |-> commits, ticks |-> ticks]

\* concurrent requests
Narrow == Inputs({User1}, {<<"organization", "nil">>}, {3}, {<<"organization", "">>},
                 {2}, {{}}, {-1, 1}, {Allow}, BOOLEAN, MaxCommits, FALSE)
\* one request at a time
Wide == Inputs({User1, User2},
               {<<"organization", "nil">>, <<"team", "nil">>, <<"team", "">>,
                <<"team", "T1">>, <<"other", "nil">>},
               {0, 3},
               {<<"organization", "">>, <<"team", "">>, <<"team", "T1">>,
                <<"team", "T2">>, <<"other", "">>},
               {0, 2}, {{}, {"u2"}}, {-1, 0, 1}, {Allow, Deny, CheckFailed}, BOOLEAN,
               MaxCommits - 1, FALSE)
\* concurrent requests on a root with children of 1 MB, under a ticking clock
Siblings == Inputs({User1}, {<<"organization", "nil">>}, {3}, {<<"organization", "">>},
                   {1}, {{}}, {1}, {Allow}, BOOLEAN, MaxCommits + 1, TRUE)
ResourceIDs == {"r1"}

\* the error kinds the messages of QuotaService stand for
OK == "OK"
ValidationError == "ValidationError"
PermissionDenied == "PermissionDenied"
UpstreamError == "UpstreamError"
ResourceError == "ResourceError"
NotFound == "NotFound"
InsufficientCapacity == "InsufficientCapacity"
HierarchyViolation == "HierarchyViolation"
BusyResource == "BusyResource"
StorageError == "StorageError"

VARIABLES
    quotas,      \* committed rows of table quotas: id -> row
    usage,       \* committed rows of quota_usage, in commit order
    audit,       \* committed rows of quota_audit_logs, in commit order
    resources,   \* auth service: registered resource ids
    grants,      \* auth service: <<target user, resource id, permission>> granted
    pc,          \* position of each request
    req,         \* the call and its arguments
    row,         \* the row getQuotaForUpdateTx returned (parentQuota / quota)
    txq,         \* rows written by the open transaction, not yet committed
    txu,         \* quota_usage rows inserted by the open transaction
    txa,         \* quota_audit_logs rows inserted by the open transaction
    txFailed,    \* the transaction is in PostgreSQL's aborted state
    held,        \* row locks each transaction holds
    result,      \* what the method returned to its caller
    ret,         \* the *models.Quota returned (NoRow when none)
    committed,   \* whether the request's transaction committed
    txStart,     \* NOW() of each transaction: the time of its BEGIN
    usageAt,     \* column created_at of quota_usage, row by row
    auditAt      \* column created_at of quota_audit_logs, row by row

vars == <<quotas, usage, audit, resources, grants, pc, req, row, txq, txu, txa,
          txFailed, held, result, ret, committed, txStart, usageAt, auditAt>>

NoRow == [ID |-> NoQuota]

\* a call of a QuotaService method: the actor, the target id, the request fields,
\* the id generated for a new quota and what CheckPermission answered
Request(op, user, quotaID, type, mb, team, admins, newID, resource, answer) ==
    [op |-> op, user |-> user, quotaID |-> quotaID, newID |-> newID, answer |-> answer,
     Type |-> type, MB |-> mb, TeamID |-> team, AdminUserIDs |-> admins,
     ResourceID |-> resource]
NoUser == [UserID |-> Nil, OrganizationID |-> Nil]
\* CheckPermission has not been asked
NoAnswer == <<Nil, Nil>>
NoReq == Request("none", NoUser, NoQuota, Nil, 0, Nil, {}, NoQuota, Nil, NoAnswer)
EmptyRows == [i \in {} |-> NoRow]

\* models.Quota (name, description and the timestamps left out)
Quota(id, type, total, used, allocated, parent, level, path, owner, org, team, status, available) ==
    [OrganizationID |-> org, ID |-> id, Type |-> type, TeamID |-> team,
     TotalMB |-> total, UsedMB |-> used, AllocatedMB |-> allocated,
     AvailableMB |-> available, ParentQuotaID |-> parent, Level |-> level,
     Path |-> path, OwnerID |-> owner, Status |-> status]

\* ------------------------------------------------------------------ schema
\* available_mb BIGINT GENERATED ALWAYS AS (total_mb - used_mb - allocated_mb) STORED
Stored(q) == [q EXCEPT !.AvailableMB = q.TotalMB - q.UsedMB - q.AllocatedMB]

\* CHECK constraints of table quotas
QuotaRowOK(q) ==
    /\ q.Type \in {QuotaTypeOrganization, QuotaTypeTeam}
    /\ q.TotalMB >= 0
    /\ q.UsedMB >= 0
    /\ q.AllocatedMB >= 0
    /\ q.Level >= 0
    /\ q.Status \in {QuotaStatusActive, QuotaStatusSuspended, QuotaStatusDeleted}
    /\ q.UsedMB + q.AllocatedMB <= q.TotalMB

\* a table quota_usage without CHECK (usage_mb > 0)
UsageRowOKAnyAmount(u) ==
    /\ u.UsageMB \in Int
    /\ u.Operation \in {OperationAllocate, OperationDeallocate}

\* CHECK constraints of table quota_usage
UsageRowOK(u) ==
    /\ u.UsageMB > 0
    /\ u.Operation \in {OperationAllocate, OperationDeallocate}

\* a schema whose tables were created without their CHECK constraints
SchemaCheckOff(table, r) == TRUE

\* the CHECK constraints of the schema, by table
SchemaCheck(table, r) ==
    IF table = "quotas" THEN QuotaRowOK(r) ELSE UsageRowOK(r)

\* an UPDATE of allocated_mb that leaves the row as it was
UpdateAllocatedLost(q, delta) == q

\* UPDATE quotas SET allocated_mb = allocated_mb + delta
UpdateAllocated(q, delta) == Stored([q EXCEPT !.AllocatedMB = @ + delta])

\* UPDATE quotas SET used_mb = used_mb + delta
UpdateUsed(q, delta) == Stored([q EXCEPT !.UsedMB = @ + delta])

\* a soft delete that also clears the capacity of the row
SoftDeleteZeroing(q) == Stored([q EXCEPT !.Status = QuotaStatusDeleted, !.TotalMB = 0])

\* a release that suspends the row
SoftDeleteSuspending(q) == Stored([q EXCEPT !.Status = QuotaStatusSuspended])

\* UPDATE quotas SET status = 'deleted'
SoftDelete(q) == Stored([q EXCEPT !.Status = QuotaStatusDeleted])

\* ------------------------------------------------------------ transactions
\* a SELECT without FOR UPDATE: it never waits
LockIgnored(p, id) == TRUE

\* no other transaction holds the row lock on id
LockFree(p, id) == \A o \in Procs \ {p} : id \notin held[o]

\* the row version a statement of p's transaction works on
Current(p, id) == IF id \in DOMAIN txq[p] THEN txq[p][id] ELSE quotas[id]

Put(f, id, r) == [i \in DOMAIN f \cup {id} |-> IF i = id THEN r ELSE f[i]]

\* a lookup WHERE id = $1 alone
FoundAny(id) == id \in DOMAIN quotas

\* WHERE id = $1 AND status != 'deleted' matches a committed row
Found(id) == id \in DOMAIN quotas /\ quotas[id].Status # QuotaStatusDeleted

\* uuid.New(): an id no row and no other request uses
FreshId(p) ==
    LET used == DOMAIN quotas \cup {req[o].newID : o \in {x \in Procs \ {p} : pc[x] \notin {"idle", "done"}}}
        free == QuotaIds \ used
    IN  IF free = {} THEN NoQuota ELSE CHOOSE i \in free : \A j \in free : i <= j

\* The statements of one fn: the storage or auth call number fail (0: none)
\* returns an error
Faults(in, n) == IF FALSE \in in.okValues THEN 0..n ELSE {0}

\* tx.Exec of the INSERTs and UPDATEs of table quotas that fn issues, in order, as
\* <<id, new row>>: the number of the first one that fails (0: none), because
\* the call fails or because the row breaks a CHECK constraint
FirstBad(writes, fail) ==
    LET bad == {k \in 1..Len(writes) : k = fail \/ ~SchemaCheck("quotas", writes[k][2])}
    IN  IF bad = {} THEN 0 ELSE CHOOSE k \in bad : \A j \in bad : k <= j

\* the rows the first n of these statements wrote
Written(writes, n) ==
    [i \in {writes[k][1] : k \in 1..n} |->
        writes[CHOOSE k \in 1..n : writes[k][1] = i][2]]

\* a deferred function that publishes the rows written before the error
RollbackKeeps(p, w) ==
    /\ quotas' = [i \in DOMAIN quotas \cup DOMAIN txq[p] \cup DOMAIN w |->
                    IF i \in DOMAIN w THEN w[i]
                    ELSE IF i \in DOMAIN txq[p] THEN txq[p][i] ELSE quotas[i]]
    /\ UNCHANGED <<usage, audit, usageAt, auditAt>>

\* the deferred function of WithTransaction, err != nil: tx.Rollback() drops the
\* rows w the transaction wrote
Rollback(p, w) == UNCHANGED <<quotas, usage, audit, usageAt, auditAt>>

\* a commit of a schema in which deleting is a DELETE: the rows given status
\* deleted leave the table
CommitTxPurging(p) ==
    /\ quotas' = [i \in {j \in DOMAIN quotas \cup DOMAIN txq[p] :
                            Current(p, j).Status # QuotaStatusDeleted} |-> Current(p, i)]
    /\ usage' = usage \o txu[p]
    /\ audit' = audit \o txa[p]
    /\ usageAt' = usageAt \o [k \in 1..Len(txu[p]) |-> txStart[p]]
    /\ auditAt' = auditAt \o [k \in 1..Len(txa[p]) |-> txStart[p]]

\* the deferred function of WithTransaction, err == nil: tx.Commit() publishes the
\* transaction's writes
CommitTx(p) ==
    /\ quotas' = [i \in DOMAIN quotas \cup DOMAIN txq[p] |-> Current(p, i)]
    /\ usage' = usage \o txu[p]
    /\ audit' = audit \o txa[p]
    /\ usageAt' = usageAt \o [k \in 1..Len(txu[p]) |-> txStart[p]]
    /\ auditAt' = auditAt \o [k \in 1..Len(txa[p]) |-> txStart[p]]

\* what WithTransaction returns: `return err` has copied fn's error into the
\* unnamed result before the deferred function assigns err = tx.Commit()
WithTransactionResult(fnErr, commitErr) == fnErr

\* a transaction whose row locks outlive it
LocksAfterEndKept(locks) == locks

\* tx.Commit() and tx.Rollback() end the transaction and release the row locks
\* it held
LocksAfterEnd(locks) == {}

\* the method returns res (and quota r) to its caller; its transaction, if any, is over
Finish(p, res, r, c) ==
    /\ pc' = [pc EXCEPT ![p] = "done"]
    /\ result' = [result EXCEPT ![p] = res]
    /\ ret' = [ret EXCEPT ![p] = r]
    /\ committed' = [committed EXCEPT ![p] = c]
    /\ row' = [row EXCEPT ![p] = NoRow]
    /\ txq' = [txq EXCEPT ![p] = EmptyRows]
    /\ txu' = [txu EXCEPT ![p] = <<>>]
    /\ txa' = [txa EXCEPT ![p] = <<>>]
    /\ txFailed' = [txFailed EXCEPT ![p] = FALSE]
    /\ held' = [held EXCEPT ![p] = LocksAfterEnd(@)]
    /\ txStart' = [txStart EXCEPT ![p] = 0]
    /\ req' = [req EXCEPT ![p] = NoReq]

\* fn returned err != nil after it wrote the rows w
Abort(p, err, w) ==
    /\ Rollback(p, w)
    /\ Finish(p, WithTransactionResult(err, OK), NoRow, FALSE)
    /\ UNCHANGED <<resources, grants>>

\* a call fails before fn runs: no transaction is open
Reject(p, err) ==
    /\ Finish(p, err, NoRow, FALSE)
    /\ UNCHANGED <<quotas, usage, audit, resources, grants, usageAt, auditAt>>

\* an audit INSERT issued outside the transaction: when it fails the
\* transaction goes on and commits
createAuditLogNoTx(p, quotaID, actionType, actorUserID, ok) ==
    /\ txa' = [txa EXCEPT ![p] =
                 IF ok THEN Append(@, [QuotaID |-> quotaID, ActionType |-> actionType,
                                       ActorUserID |-> actorUserID])
                 ELSE @]
    /\ UNCHANGED txFailed

\* createAuditLogTx: an INSERT into quota_audit_logs; when it fails the caller
\* only logs a warning, and PostgreSQL has aborted the transaction
createAuditLogTx(p, quotaID, actionType, actorUserID, ok) ==
    /\ txa' = [txa EXCEPT ![p] =
                 IF ok THEN Append(@, [QuotaID |-> quotaID, ActionType |-> actionType,
                                       ActorUserID |-> actorUserID])
                 ELSE @]
    /\ txFailed' = [txFailed EXCEPT ![p] = @ \/ ~ok]

Init ==
    /\ quotas = EmptyRows
    /\ usage = <<>>
    /\ audit = <<>>
    /\ resources = {}
    /\ grants = {}
    /\ pc = [p \in Procs |-> "idle"]
    /\ req = [p \in Procs |-> NoReq]
    /\ row = [p \in Procs |-> NoRow]
    /\ txq = [p \in Procs |-> EmptyRows]
    /\ txu = [p \in Procs |-> <<>>]
    /\ txa = [p \in Procs |-> <<>>]
    /\ txFailed = [p \in Procs |-> FALSE]
    /\ held = [p \in Procs |-> {}]
    /\ result = [p \in Procs |-> Nil]
    /\ ret = [p \in Procs |-> NoRow]
    /\ committed = [p \in Procs |-> FALSE]
    /\ txStart = [p \in Procs |-> 0]
    /\ usageAt = <<>>
    /\ auditAt = <<>>

\* The clock of the database, counted in the transactions committed so far
\* (each commit appends one audit row): a later reading is never smaller
Now(in) == IF in.ticks THEN Len(audit) ELSE 0

\* db.Begin() of WithTransaction, called as soon as the permission check and
\* the validation have passed: PostgreSQL's NOW() is the time of BEGIN in every
\* statement of the transaction, also in those that first waited for a row lock
BeginAt(p, in) == [txStart EXCEPT ![p] = Now(in)]

\* a request can start: the previous one of this process has returned
CanCall(p, in) == pc[p] \in {"idle", "done"} /\ Len(audit) < in.commits

\* a method is called with request r
Call(p, in, r, next) ==
    /\ CanCall(p, in)
    /\ req' = [req EXCEPT ![p] = r]
    /\ pc' = [pc EXCEPT ![p] = next]
    /\ result' = [result EXCEPT ![p] = Nil]
    /\ ret' = [ret EXCEPT ![p] = NoRow]
    /\ committed' = [committed EXCEPT ![p] = FALSE]
    /\ UNCHANGED <<quotas, usage, audit, resources, grants, row, txq, txu, txa,
                   txFailed, held, txStart, usageAt, auditAt>>

\* a method that goes on whatever CheckPermission answered
AuthorizedAlways(answer) == TRUE

\* CheckPermission answered hasPermission = true, err = nil
Authorized(answer) == answer = Allow

\* the permission each method asks CheckPermission for
RequiredPermission(op) ==
    IF op \in {"AllocateQuota", "ReleaseQuota"} THEN QuotaPermissionAdmin
    ELSE QuotaPermissionRead

\* The head of AllocateQuota, ReleaseQuota, AllocateUsage, DeallocateUsage and
\* GetQuota: CheckPermission, then the validation, before db.WithTransaction
CheckPermission(p, in) ==
    /\ pc[p] = "check"
    /\ \E answer \in in.answers :
         /\ IF answer = CheckFailed THEN Reject(p, UpstreamError)
            ELSE IF ~Authorized(answer) THEN Reject(p, PermissionDenied)
            ELSE IF req[p].op = "AllocateQuota" /\ req[p].MB <= 0
            THEN Reject(p, ValidationError)
            ELSE /\ pc' = [pc EXCEPT ![p] = IF req[p].op = "GetQuota" THEN "read" ELSE "fn"]
                 /\ req' = [req EXCEPT ![p].answer = <<RequiredPermission(req[p].op), answer>>]
                 /\ txStart' = BeginAt(p, in)
                 /\ UNCHANGED <<quotas, usage, audit, resources, grants, row, txq, txu,
                                txa, txFailed, held, result, ret, committed, usageAt,
                                auditAt>>

\* db.Begin() fails: WithTransaction returns before fn runs
BeginFails(p, in) ==
    /\ pc[p] = "fn"
    /\ FALSE \in in.okValues
    /\ Reject(p, StorageError)

\* fn goes on to its next statement
Goto(p, next) ==
    /\ pc' = [pc EXCEPT ![p] = next]
    /\ UNCHANGED <<quotas, usage, audit, req, result, committed, txStart, usageAt,
                   auditAt>>

\* a SELECT ... FOR UPDATE that locks the row's parent along with it
LockedRowsWithParent(id) == {id} \cup ({quotas[id].ParentQuotaID} \ {NoQuota})

\* lines 573-580: the rows FOR UPDATE locks, the one WHERE id = $1 selects
LockedRows(id) == {id}

\* getQuotaForUpdateTx: SELECT ... WHERE id = $1 AND status != 'deleted' FOR UPDATE
\* waits for the row lock and returns the committed row with AvailableMB computed
getQuotaForUpdateTx(id) ==
    [quotas[id] EXCEPT !.AvailableMB = quotas[id].TotalMB - quotas[id].UsedMB - quotas[id].AllocatedMB]

\* ------------------------------------------------------------- CreateQuota
\* a CreateQuota that asks CheckPermission before it validates
CreateQuotaCallChecked(p, in) ==
    /\ FreshId(p) # NoQuota
    /\ \E u \in in.users, c \in in.creates, mb \in in.totals :
         Call(p, in, Request("CreateQuota", u, NoQuota, c[1], mb, c[2], {}, FreshId(p), Nil,
                         NoAnswer), "check")

\* lines 33-49: validation, then the id
CreateQuotaCall(p, in) ==
    /\ FreshId(p) # NoQuota
    /\ \E u \in in.users, c \in in.creates, mb \in in.totals :
         Call(p, in, Request("CreateQuota", u, NoQuota, c[1], mb, c[2], {}, FreshId(p), Nil,
                         NoAnswer), "validate")

\* a validation that does not ask a team quota for its team_id
CreateQuotaValidAnyTeam(r) ==
    /\ r.MB > 0
    /\ r.Type \in {QuotaTypeOrganization, QuotaTypeTeam}

\* lines 35-46: the three checks at the head of CreateQuota
CreateQuotaValid(r) ==
    /\ r.MB > 0
    /\ r.Type \in {QuotaTypeOrganization, QuotaTypeTeam}
    /\ ~(r.Type = QuotaTypeTeam /\ r.TeamID \in {Nil, ""})

CreateQuotaValidate(p, in) ==
    /\ pc[p] = "validate"
    /\ LET r == req[p]
           valid == CreateQuotaValid(r)
       IN  IF valid
           THEN /\ pc' = [pc EXCEPT ![p] = "fn"]
                /\ txStart' = BeginAt(p, in)
                /\ UNCHANGED <<quotas, usage, audit, resources, grants, req, row, txq,
                               txu, txa, txFailed, held, result, ret, committed, usageAt,
                               auditAt>>
           ELSE Reject(p, ValidationError)

\* a root quota that takes organization_id from the request, which has none
RootQuotaRequestOrg(r) ==
    Quota(r.newID, r.Type, r.MB, 0, 0, NoQuota, 0, <<r.newID>>,
          r.user.UserID, Nil, r.TeamID, QuotaStatusActive, 0)

\* lines 54-71: the models.Quota of a root quota (Path "/" + id as the id chain)
RootQuota(r) ==
    Quota(r.newID, r.Type, r.MB, 0, 0, NoQuota, 0, <<r.newID>>,
          r.user.UserID, r.user.OrganizationID, r.TeamID, QuotaStatusActive, 0)

\* lines 52-109: the transaction function (statement 1 the INSERT, 2 the audit log)
CreateQuotaTx(p, in) ==
    /\ pc[p] = "fn"
    /\ req[p].op = "CreateQuota"
    /\ LET r == req[p]
           quota == RootQuota(r)
           writes == << <<r.newID, Stored(quota)>> >>
       IN  \E fail \in Faults(in, 2) :
             IF FirstBad(writes, fail) # 0
             THEN Abort(p, StorageError, Written(writes, FirstBad(writes, fail) - 1))
             ELSE /\ txq' = [txq EXCEPT ![p] = Written(writes, 1)]
                  /\ createAuditLogTx(p, r.newID, "create", r.user.UserID, fail # 2)
                  /\ ret' = [ret EXCEPT ![p] = quota]
                  /\ Goto(p, "commit")
                  /\ UNCHANGED <<resources, grants, row, txu, held>>

\* ----------------------------------------------------------- AllocateQuota
\* a rule that lets a team quota allocate to any team
validateAllocationRulesAnyTeam(parentQuota, request) ==
    IF parentQuota.Type = QuotaTypeOrganization /\ request.Type = QuotaTypeTeam THEN OK
    ELSE IF parentQuota.Type = QuotaTypeOrganization /\ request.Type = QuotaTypeOrganization
    THEN OK
    ELSE IF parentQuota.Type = QuotaTypeTeam /\ request.Type = QuotaTypeTeam THEN OK
    ELSE HierarchyViolation

\* a rule that lets a team quota allocate to an organization quota as well
validateAllocationRulesTeamToOrg(parentQuota, request) ==
    IF parentQuota.Type = QuotaTypeOrganization /\ request.Type = QuotaTypeTeam THEN OK
    ELSE IF parentQuota.Type = QuotaTypeOrganization /\ request.Type = QuotaTypeOrganization
    THEN OK
    ELSE IF parentQuota.Type = QuotaTypeTeam /\ request.Type = QuotaTypeTeam
    THEN IF parentQuota.TeamID = Nil \/ request.TeamID # parentQuota.TeamID
         THEN HierarchyViolation
         ELSE OK
    ELSE IF parentQuota.Type = QuotaTypeTeam /\ request.Type = QuotaTypeOrganization
    THEN OK
    ELSE HierarchyViolation

\* lines 603-624
validateAllocationRules(parentQuota, request) ==
    IF parentQuota.Type = QuotaTypeOrganization /\ request.Type = QuotaTypeTeam THEN OK
    ELSE IF parentQuota.Type = QuotaTypeOrganization /\ request.Type = QuotaTypeOrganization
    THEN OK
    ELSE IF parentQuota.Type = QuotaTypeTeam /\ request.Type = QuotaTypeTeam
    THEN IF parentQuota.TeamID = Nil \/ request.TeamID # parentQuota.TeamID
         THEN HierarchyViolation
         ELSE OK
    ELSE HierarchyViolation

\* a child that always takes the parent's team
determineTeamIDInherit(parentQuota, request) == parentQuota.TeamID

\* lines 626-631 (request.TeamID holds the request's TargetID)
determineTeamID(parentQuota, request) ==
    IF request.Type = QuotaTypeTeam THEN request.TeamID ELSE parentQuota.TeamID

\* a loop that returns the error of the first GrantPermission that fails
GrantPermissionErrReturned(admins, granted) ==
    IF granted # admins THEN UpstreamError ELSE OK

\* lines 325-333: the error fn returns after the loop over AdminUserIDs that
\* granted admin to the users in granted: a GrantPermission that fails is
\* logged and the loop goes on
GrantPermissionErr(admins, granted) == OK

\* line 238: the call (the id of line 254 is drawn here: it depends on nothing)
AllocateQuotaCall(p, in) ==
    /\ FreshId(p) # NoQuota
    /\ \E u \in in.users, id \in QuotaIds, a \in in.allocates, mb \in in.allocs,
          admins \in in.admins :
         Call(p, in, Request("AllocateQuota", u, id, a[1], mb, a[2], admins, FreshId(p), Nil,
                         NoAnswer), "check")

\* a child that takes the caller's organization
ChildQuotaCallerOrg(r, parentQuota) ==
    Quota(r.newID, r.Type, r.MB, 0, 0, r.quotaID, parentQuota.Level + 1,
          Append(parentQuota.Path, r.newID), parentQuota.OwnerID,
          r.user.OrganizationID, determineTeamID(parentQuota, r), QuotaStatusActive, 0)

\* a child that is given its parent's level
ChildQuotaSameLevel(r, parentQuota) ==
    Quota(r.newID, r.Type, r.MB, 0, 0, r.quotaID, parentQuota.Level,
          Append(parentQuota.Path, r.newID), parentQuota.OwnerID,
          parentQuota.OrganizationID, determineTeamID(parentQuota, r),
          QuotaStatusActive, 0)

\* lines 278-295: the models.Quota of the child (Path parentQuota.Path + "/" + id)
ChildQuota(r, parentQuota) ==
    Quota(r.newID, r.Type, r.MB, 0, 0, r.quotaID, parentQuota.Level + 1,
          Append(parentQuota.Path, r.newID), parentQuota.OwnerID,
          parentQuota.OrganizationID, determineTeamID(parentQuota, r),
          QuotaStatusActive, 0)

\* lines 259-346: the transaction function.  Statement 1 is the INSERT of the
\* child, 2 the UPDATE of the parent, 3 CreateResource, 4 the audit log;
\* CreateResource and GrantPermission are calls to the auth service made while
\* the transaction is open, and a GrantPermission that fails is only logged.
AllocateQuotaTx(p, in) ==
    /\ pc[p] = "fn"
    /\ req[p].op = "AllocateQuota"
    /\ LET r == req[p] IN
       IF ~Found(r.quotaID) THEN Abort(p, NotFound, EmptyRows)
       ELSE
         /\ LockFree(p, r.quotaID)
         /\ LET parentQuota == getQuotaForUpdateTx(r.quotaID)
                childQuota == ChildQuota(r, parentQuota)
                writes == << <<r.newID, Stored(childQuota)>>,
                             <<r.quotaID, UpdateAllocated(Current(p, r.quotaID), r.MB)>> >>
            IN
            IF parentQuota.AvailableMB < r.MB
            THEN Abort(p, InsufficientCapacity, EmptyRows)
            ELSE IF validateAllocationRules(parentQuota, r) # OK
            THEN Abort(p, HierarchyViolation, EmptyRows)
            ELSE \E fail \in Faults(in, 4), granted \in SUBSET r.AdminUserIDs :
                   IF FirstBad(writes, fail) # 0
                   THEN Abort(p, StorageError, Written(writes, FirstBad(writes, fail) - 1))
                   ELSE IF fail = 3 THEN Abort(p, ResourceError, Written(writes, 2))
                   ELSE IF GrantPermissionErr(r.AdminUserIDs, granted) # OK
                   THEN /\ Rollback(p, Written(writes, 2))
                        /\ Finish(p, WithTransactionResult(UpstreamError, OK), NoRow, FALSE)
                        /\ resources' = resources \cup {r.newID}
                        /\ grants' = grants \cup
                              {<<a, r.newID, QuotaPermissionAdmin>> : a \in granted}
                   ELSE /\ held' = [held EXCEPT ![p] = @ \cup LockedRows(r.quotaID)]
                        /\ row' = [row EXCEPT ![p] = parentQuota]
                        /\ txq' = [txq EXCEPT ![p] = Written(writes, 2)]
                        /\ resources' = resources \cup {r.newID}
                        /\ grants' = grants \cup
                              {<<a, r.newID, QuotaPermissionAdmin>> : a \in granted}
                        /\ createAuditLogTx(p, r.newID, "allocate", r.user.UserID,
                                            fail # 4)
                        /\ ret' = [ret EXCEPT ![p] = childQuota]
                        /\ Goto(p, "commit")
                        /\ UNCHANGED txu

\* ------------------------------------------------------------ ReleaseQuota
\* a release that gives nothing back to the parent
ReturnedNothing(quota) == 0

\* a check that looks at usage only
InUseByUsage(quota) == quota.UsedMB > 0

\* line 382: the quota has usage or allocations
InUse(quota) == quota.UsedMB > 0 \/ quota.AllocatedMB > 0

\* line 390: the amount the UPDATE of the parent takes off allocated_mb
ReturnedMB(quota) == quota.TotalMB

\* line 364
ReleaseQuotaCall(p, in) ==
    \E u \in in.users, id \in QuotaIds :
        Call(p, in, Request("ReleaseQuota", u, id, Nil, 0, Nil, {}, NoQuota, Nil, NoAnswer), "check")

\* lines 375-385: lock the quota, refuse when it is in use
ReleaseQuotaTx(p, in) ==
    /\ pc[p] = "fn"
    /\ req[p].op = "ReleaseQuota"
    /\ LET r == req[p] IN
       IF ~Found(r.quotaID) THEN Abort(p, NotFound, EmptyRows)
       ELSE
         /\ LockFree(p, r.quotaID)
         /\ LET quota == getQuotaForUpdateTx(r.quotaID) IN
            IF InUse(quota)
            THEN Abort(p, BusyResource, EmptyRows)
            ELSE /\ held' = [held EXCEPT ![p] = @ \cup LockedRows(r.quotaID)]
                 /\ row' = [row EXCEPT ![p] = quota]
                 /\ Goto(p, "release")
                 /\ UNCHANGED <<resources, grants, txq, txu, txa, txFailed, ret>>

\* lines 387-410: the UPDATE of the parent (it waits for the parent's row lock),
\* the soft delete, the audit log
ReleaseQuotaUpdate(p, in) ==
    /\ pc[p] = "release"
    /\ LET quota == row[p]
           parent == quota.ParentQuotaID
           hasParent == parent # NoQuota
           softDelete == <<quota.ID, SoftDelete(Current(p, quota.ID))>>
           writes == IF hasParent
                     THEN << <<parent, UpdateAllocated(Current(p, parent), -ReturnedMB(quota))>>,
                             softDelete >>
                     ELSE << softDelete >>
           n == Len(writes)
       IN
       /\ hasParent => LockFree(p, parent)
       /\ \E fail \in Faults(in, n + 1) :
            IF FirstBad(writes, fail) # 0
            THEN Abort(p, StorageError, Written(writes, FirstBad(writes, fail) - 1))
            ELSE /\ held' = [held EXCEPT ![p] = IF hasParent THEN @ \cup {parent} ELSE @]
                 /\ txq' = [txq EXCEPT ![p] = Written(writes, n)]
                 /\ createAuditLogTx(p, req[p].quotaID, "release", req[p].user.UserID,
                                     fail # n + 1)
                 /\ Goto(p, "commit")
                 /\ UNCHANGED <<resources, grants, row, txu, ret>>

\* ------------------------------------------- AllocateUsage, DeallocateUsage
\* lines 417 and 475
UsageCall(p, in, op) ==
    \E u \in in.users, id \in QuotaIds, mb \in in.usages, res \in ResourceIDs :
        Call(p, in, Request(op, u, id, Nil, mb, Nil, {}, NoQuota, res, NoAnswer), "check")

AllocateUsageCall(p, in) == UsageCall(p, in, "AllocateUsage")
DeallocateUsageCall(p, in) == UsageCall(p, in, "DeallocateUsage")

\* a usage row that always says allocate
UsageRecordAllocate(r, operation) ==
    [UserID |-> r.user.UserID, ResourceID |-> r.ResourceID, UsageMB |-> r.MB,
     Operation |-> OperationAllocate, QuotaID |-> r.quotaID]

\* the INSERT INTO quota_usage of lines 448-458 and 504-514
UsageRecord(r, operation) ==
    [UserID |-> r.user.UserID, ResourceID |-> r.ResourceID, UsageMB |-> r.MB,
     Operation |-> operation, QuotaID |-> r.quotaID]

\* lines 441-470 and 497-526: statement 1 the UPDATE of used_mb by delta, 2 the
\* INSERT of the usage row, 3 the audit log
UsageWrite(p, in, delta, operation, actionType) ==
    LET r == req[p]
        writes == << <<r.quotaID, UpdateUsed(Current(p, r.quotaID), delta)>> >>
        usageRow == UsageRecord(r, operation)
    IN  \E fail \in Faults(in, 3) :
          IF FirstBad(writes, fail) # 0
          THEN Abort(p, StorageError, EmptyRows)
          ELSE IF fail = 2 \/ ~SchemaCheck("quota_usage", usageRow)
          THEN Abort(p, StorageError, Written(writes, 1))
          ELSE /\ held' = [held EXCEPT ![p] = @ \cup LockedRows(r.quotaID)]
               /\ row' = [row EXCEPT ![p] = getQuotaForUpdateTx(r.quotaID)]
               /\ txq' = [txq EXCEPT ![p] = Written(writes, 1)]
               /\ txu' = [txu EXCEPT ![p] = Append(@, usageRow)]
               /\ createAuditLogTx(p, r.quotaID, actionType, r.user.UserID, fail # 3)
               /\ Goto(p, "commit")
               /\ UNCHANGED <<resources, grants, ret>>

\* a check that also refuses the amount that just fits
UsageExceedsOrFills(quota, mb) ==
    LET availableForUsage == quota.TotalMB - quota.UsedMB - quota.AllocatedMB
    IN  availableForUsage <= mb

\* lines 434-439: the capacity check of AllocateUsage
UsageExceeds(quota, mb) ==
    LET availableForUsage == quota.TotalMB - quota.UsedMB - quota.AllocatedMB
    IN  availableForUsage < mb

\* lines 427-471
AllocateUsageTx(p, in) ==
    /\ pc[p] = "fn"
    /\ req[p].op = "AllocateUsage"
    /\ LET r == req[p] IN
       IF ~Found(r.quotaID) THEN Abort(p, NotFound, EmptyRows)
       ELSE
         /\ LockFree(p, r.quotaID)
         /\ LET quota == getQuotaForUpdateTx(r.quotaID) IN
            IF UsageExceeds(quota, r.MB) THEN Abort(p, InsufficientCapacity, EmptyRows)
            ELSE UsageWrite(p, in, r.MB, OperationAllocate, "usage_allocate")

\* an UPDATE copied from AllocateUsage with its sign
DeallocateDeltaPlus(mb) == mb

\* line 498: UPDATE quotas SET used_mb = used_mb - $1
DeallocateDelta(mb) == -mb

\* a check that also refuses to give back all that is in use
DeallocateExceedsOrAll(quota, mb) == quota.UsedMB <= mb

\* lines 492-495: the check of DeallocateUsage
DeallocateExceeds(quota, mb) == quota.UsedMB < mb

\* lines 485-527
DeallocateUsageTx(p, in) ==
    /\ pc[p] = "fn"
    /\ req[p].op = "DeallocateUsage"
    /\ LET r == req[p] IN
       IF ~Found(r.quotaID) THEN Abort(p, NotFound, EmptyRows)
       ELSE
         /\ LockFree(p, r.quotaID)
         /\ LET quota == getQuotaForUpdateTx(r.quotaID) IN
            IF DeallocateExceeds(quota, r.MB) THEN Abort(p, ValidationError, EmptyRows)
            ELSE UsageWrite(p, in, DeallocateDelta(r.MB), OperationDeallocate,
                            "usage_deallocate")

\* ---------------------------------------------------------------- GetQuota
\* line 531
GetQuotaCall(p, in) ==
    \E u \in in.users, id \in QuotaIds :
        Call(p, in, Request("GetQuota", u, id, Nil, 0, Nil, {}, NoQuota, Nil, NoAnswer), "check")

\* a GetQuota that returns the scanned struct, AvailableMB left at its zero value
GetQuotaRowAsScanned(id) == [quotas[id] EXCEPT !.AvailableMB = 0]

\* lines 541-565: the row scanned from the committed table, then AvailableMB
GetQuotaRow(id) ==
    [quotas[id] EXCEPT !.AvailableMB = quotas[id].TotalMB - quotas[id].UsedMB - quotas[id].AllocatedMB]

\* lines 541-567: a plain SELECT of the committed row, outside any transaction
GetQuotaRead(p, in) ==
    /\ pc[p] = "read"
    /\ \E ok \in in.okValues :
         IF ~Found(req[p].quotaID) THEN Reject(p, NotFound)
         ELSE IF ~ok THEN Reject(p, StorageError)
         ELSE /\ Finish(p, OK, GetQuotaRow(req[p].quotaID), FALSE)
              /\ UNCHANGED <<quotas, usage, audit, resources, grants, usageAt, auditAt>>

\* --------------------------------------------------------- WithTransaction
\* fn returned nil: the deferred function commits; COMMIT of a transaction that
\* PostgreSQL has aborted rolls it back and the driver reports an error
Commit(p, in) ==
    /\ pc[p] = "commit"
    /\ \E ok \in in.okValues :
         IF ok /\ ~txFailed[p]
         THEN /\ CommitTx(p)
              /\ Finish(p, WithTransactionResult(OK, OK), ret[p], TRUE)
         ELSE /\ Rollback(p, EmptyRows)
              /\ Finish(p, WithTransactionResult(OK, StorageError),
                        IF WithTransactionResult(OK, StorageError) = OK
                        THEN ret[p] ELSE NoRow,
                        FALSE)
    /\ UNCHANGED <<resources, grants>>

\* ----------------------------------------------------------- specifications
Step(p, in) ==
    \/ CreateQuotaCall(p, in)
    \/ CreateQuotaValidate(p, in)
    \/ CreateQuotaTx(p, in)
    \/ CheckPermission(p, in)
    \/ BeginFails(p, in)
    \/ AllocateQuotaCall(p, in)
    \/ AllocateQuotaTx(p, in)
    \/ ReleaseQuotaCall(p, in)
    \/ ReleaseQuotaTx(p, in)
    \/ ReleaseQuotaUpdate(p, in)
    \/ AllocateUsageCall(p, in)
    \/ AllocateUsageTx(p, in)
    \/ DeallocateUsageCall(p, in)
    \/ DeallocateUsageTx(p, in)
    \/ GetQuotaCall(p, in)
    \/ GetQuotaRead(p, in)
    \/ Commit(p, in)

\* concurrent requests
Next == \E p \in Procs : Step(p, Narrow)
Spec == Init /\ [][Next]_vars

\* one request at a time, every kind of input
NextSeq == Step(1, Wide)
SpecSeq == Init /\ [][NextSeq]_vars

\* one request at a time, each AllocateQuota naming two admin users
TwoAdmins == Inputs({User1}, {<<"organization", "nil">>}, {3}, {<<"organization", "">>},
                    {2}, {{"u2", "u3"}}, {1}, {Allow}, BOOLEAN, MaxCommits - 1, FALSE)
NextAdmins == Step(1, TwoAdmins)
SpecAdmins == Init /\ [][NextAdmins]_vars

\* concurrent requests on a ledger that already holds a root of 3 MB and its
\* child of 1 MB: the state in which request 1 has returned from a CreateQuota
\* and then from an AllocateQuota
TreeRoot == Request("CreateQuota", User1, NoQuota, QuotaTypeOrganization, 3, Nil, {}, 1,
                    Nil, NoAnswer)
TreeChild == Request("AllocateQuota", User1, 1, QuotaTypeOrganization, 1, "", {}, 2, Nil,
                     NoAnswer)
InitTree ==
    /\ quotas = Put(Put(EmptyRows, 1, UpdateAllocated(Stored(RootQuota(TreeRoot)), 1)),
                    2, Stored(ChildQuota(TreeChild, Stored(RootQuota(TreeRoot)))))
    /\ usage = <<>>
    /\ audit = <<[QuotaID |-> 1, ActionType |-> "create", ActorUserID |-> "u1"],
                 [QuotaID |-> 2, ActionType |-> "allocate", ActorUserID |-> "u1"]>>
    /\ resources = {2}
    /\ grants = {}
    /\ pc = [p \in Procs |-> IF p = 1 THEN "done" ELSE "idle"]
    /\ req = [p \in Procs |-> NoReq]
    /\ row = [p \in Procs |-> NoRow]
    /\ txq = [p \in Procs |-> EmptyRows]
    /\ txu = [p \in Procs |-> <<>>]
    /\ txa = [p \in Procs |-> <<>>]
    /\ txFailed = [p \in Procs |-> FALSE]
    /\ held = [p \in Procs |-> {}]
    /\ result = [p \in Procs |-> IF p = 1 THEN OK ELSE Nil]
    /\ ret = [p \in Procs |->
                IF p = 1 THEN ChildQuota(TreeChild, Stored(RootQuota(TreeRoot))) ELSE NoRow]
    /\ committed = [p \in Procs |-> p = 1]
    /\ txStart = [p \in Procs |-> 0]
    /\ usageAt = <<>>
    /\ auditAt = <<0, 1>>

NextTree == \E p \in Procs : Step(p, Siblings)
SpecTree == InitTree /\ [][NextTree]_vars

\* ------------------------------------------------------------------ ledger
\* the committed rows that are not deleted and have parent as their parent
Children(parent) ==
    {i \in DOMAIN quotas : /\ quotas[i].ParentQuotaID = parent
                           /\ quotas[i].Status # QuotaStatusDeleted}

RECURSIVE SumTotal(_)
SumTotal(ids) ==
    IF ids = {} THEN 0
    ELSE LET i == CHOOSE x \in ids : TRUE IN quotas[i].TotalMB + SumTotal(ids \ {i})

\* C1: in every committed state, under any interleaving of requests and any
\* failing storage or auth call, each quota has used_mb >= 0, allocated_mb >= 0
\* and used_mb + allocated_mb <= total_mb.
C1_CapacityBounds ==
    \A i \in DOMAIN quotas :
        /\ quotas[i].UsedMB >= 0
        /\ quotas[i].AllocatedMB >= 0
        /\ quotas[i].UsedMB + quotas[i].AllocatedMB <= quotas[i].TotalMB

\* a quota filled to its total by usage and by an allocation to a child
C1_Witness ==
    \E i \in DOMAIN quotas :
        /\ quotas[i].UsedMB > 0
        /\ quotas[i].AllocatedMB > 0
        /\ quotas[i].UsedMB + quotas[i].AllocatedMB = quotas[i].TotalMB

\* C2: in every committed state the allocated_mb of a quota is the sum of the
\* total_mb of its direct children that are not deleted.
C2_AllocatedIsChildrenTotal ==
    \A i \in DOMAIN quotas : quotas[i].AllocatedMB = SumTotal(Children(i))

\* a parent whose child was allocated and then released
C2_Witness ==
    \E i, c \in DOMAIN quotas :
        /\ quotas[c].ParentQuotaID = i
        /\ quotas[c].Status = QuotaStatusDeleted
        /\ quotas[c].TotalMB > 0
        /\ quotas[i].AllocatedMB = 0

\* ------------------------------------------------------------- concurrency
Available(i) == quotas[i].TotalMB - quotas[i].UsedMB - quotas[i].AllocatedMB

\* p has run the fn of an AllocateQuota on a parent and waits to commit while q,
\* an AllocateQuota on the same parent, waits for the row; each request alone
\* fits in the parent's available_mb and the two together do not
Race(p, q) ==
    /\ p # q
    /\ pc[p] = "commit" /\ req[p].op = "AllocateQuota"
    /\ pc[q] = "fn" /\ req[q].op = "AllocateQuota"
    /\ req[p].quotaID = req[q].quotaID
    /\ Found(req[p].quotaID)
    /\ req[p].MB <= Available(req[p].quotaID)
    /\ req[q].MB <= Available(req[p].quotaID)
    /\ req[p].MB + req[q].MB > Available(req[p].quotaID)

\* a row lock has one holder, and a transaction holds the lock of every
\* committed row it has written
LocksExclusive ==
    /\ \A p, q \in Procs : p # q => held[p] \cap held[q] = {}
    /\ \A p \in Procs : DOMAIN txq[p] \cap DOMAIN quotas \subseteq held[p]

\* the winner's commit adds its child and its amount, and leaves less than the
\* other request needs
WinnerTakes ==
    \A p, q \in Procs :
        Race(p, q) /\ committed'[p] =>
            LET parent == req[p].quotaID IN
            /\ quotas'[parent].AllocatedMB = quotas[parent].AllocatedMB + req[p].MB
            /\ quotas'[parent].TotalMB - quotas'[parent].UsedMB
                 - quotas'[parent].AllocatedMB < req[q].MB
            /\ DOMAIN quotas' = DOMAIN quotas \cup {req[p].newID}
            /\ quotas'[req[p].newID].TotalMB = req[p].MB
            /\ quotas'[req[p].newID].ParentQuotaID = parent

\* an AllocateQuota that gets the parent's row decides on the committed row: when
\* the amount does not fit it fails InsufficientCapacity (StorageError when
\* db.Begin failed) and writes nothing, when it fits it does not fail that way
LoserFails ==
    \A q \in Procs :
        (/\ pc[q] = "fn" /\ req[q].op = "AllocateQuota" /\ pc'[q] # "fn"
         /\ Found(req[q].quotaID)) =>
            IF Available(req[q].quotaID) < req[q].MB
            THEN /\ result'[q] \in {InsufficientCapacity, StorageError}
                 /\ ~committed'[q]
                 /\ pc'[q] = "done"
                 /\ UNCHANGED <<quotas, usage, audit, resources, grants>>
            ELSE result'[q] # InsufficientCapacity

\* C3: of two concurrent AllocateQuota calls on one parent, each fitting alone
\* in the parent's available_mb and not both, one commits its child and the
\* other fails InsufficientCapacity; the parent's allocated_mb grows by the
\* winner's amount only.
C3_ConcurrentAllocate ==
    /\ []LocksExclusive
    /\ [][WinnerTakes /\ LoserFails]_vars

\* the race is on: one request has written and holds the row, the other waits
C3_Witness == \E p, q \in Procs : Race(p, q) /\ req[q].quotaID \in held[p]

Transactional ==
    {"CreateQuota", "AllocateQuota", "ReleaseQuota", "AllocateUsage", "DeallocateUsage"}

\* C5: a method reports success only if its transaction committed: a request
\* whose commit does not go through never returns OK.
C5_SuccessOnlyIfCommitted ==
    [][\A p \in Procs : pc[p] = "commit" /\ result'[p] = OK => committed'[p]]_vars

\* ---------------------------------------------------------------- journals
\* the audit row a committed request is to leave
AuditEntry(r) ==
    [QuotaID |-> IF r.op \in {"CreateQuota", "AllocateQuota"} THEN r.newID ELSE r.quotaID,
     ActionType |-> CASE r.op = "CreateQuota" -> "create"
                      [] r.op = "AllocateQuota" -> "allocate"
                      [] r.op = "ReleaseQuota" -> "release"
                      [] r.op = "AllocateUsage" -> "usage_allocate"
                      [] OTHER -> "usage_deallocate",
     ActorUserID |-> r.user.UserID]

RECURSIVE JournalSum(_, _)
\* allocate rows minus deallocate rows of quota i among the first n usage rows
JournalSum(i, n) ==
    IF n = 0 THEN 0
    ELSE JournalSum(i, n - 1) +
         (IF usage[n].QuotaID # i THEN 0
          ELSE IF usage[n].Operation = OperationAllocate THEN usage[n].UsageMB
          ELSE -usage[n].UsageMB)

UsedIsJournalSum ==
    \A i \in DOMAIN quotas : quotas[i].UsedMB = JournalSum(i, Len(usage))

\* a committed usage request appends its row, and nothing else appends one
OneUsagePerCommit ==
    /\ \A p \in Procs :
         (/\ pc[p] = "commit" /\ committed'[p]
          /\ req[p].op \in {"AllocateUsage", "DeallocateUsage"}) =>
            usage' = Append(usage,
                [UserID |-> req[p].user.UserID, ResourceID |-> req[p].ResourceID,
                 UsageMB |-> req[p].MB,
                 Operation |-> IF req[p].op = "AllocateUsage" THEN OperationAllocate
                               ELSE OperationDeallocate,
                 QuotaID |-> req[p].quotaID])
    /\ usage' # usage =>
         \E p \in Procs : /\ pc[p] = "commit" /\ committed'[p] /\ result'[p] = OK
                           /\ req[p].op \in {"AllocateUsage", "DeallocateUsage"}
                           /\ Len(usage') = Len(usage) + 1

\* C7: every committed AllocateUsage or DeallocateUsage appends exactly one
\* usage row (quota, actor, resource, amount, operation of the call) in the
\* commit that changes used_mb, a failed call appends none, and used_mb is the
\* sum of the allocate rows minus the sum of the deallocate rows.
C7_UsageJournal == []UsedIsJournalSum /\ [][OneUsagePerCommit]_vars

\* usage allocated and then given back, both rows in the journal
C7_Witness ==
    \E j, k \in 1..Len(usage) :
        /\ j < k
        /\ usage[j].QuotaID = usage[k].QuotaID
        /\ usage[j].Operation = OperationAllocate
        /\ usage[k].Operation = OperationDeallocate
        /\ quotas[usage[j].QuotaID].UsedMB = 0

\* ----------------------------------------------------------- authorization
\* a request past its permission check was answered true for the permission
\* its method needs, and one still at the check has touched nothing
CheckedFirst ==
    \A p \in Procs :
        /\ (pc[p] \in {"fn", "read", "release", "commit"} /\ req[p].op # "CreateQuota") =>
             req[p].answer =
                <<IF req[p].op \in {"AllocateQuota", "ReleaseQuota"} THEN "admin" ELSE "read",
                  Allow>>
        /\ pc[p] = "check" =>
             /\ held[p] = {} /\ txq[p] = EmptyRows /\ txu[p] = <<>> /\ txa[p] = <<>>
             /\ row[p] = NoRow

\* the check and the validation after it change nothing, a request is refused
\* for permission there and nowhere else, and a refused request has returned
DeniedChangesNothing ==
    \A p \in Procs :
        /\ (pc[p] = "check" /\ pc'[p] # "check") =>
             /\ UNCHANGED <<quotas, usage, audit, resources, grants, held, txq, txu, txa>>
             /\ pc'[p] = "done" =>
                  /\ result'[p] \in {PermissionDenied, UpstreamError, ValidationError}
                  /\ ~committed'[p]
        /\ (pc[p] # "done" /\ result'[p] = PermissionDenied) => pc[p] = "check"

\* C8: AllocateQuota and ReleaseQuota (admin) and AllocateUsage, DeallocateUsage
\* and GetQuota (read) ask CheckPermission before any read or write of the
\* ledger; when it answers false or fails the method fails without a
\* transaction and changes no quota, usage row, audit row or registration.
C8_PermissionFirst == []CheckedFirst /\ [][DeniedChangesNothing]_vars

\* a request was refused while the ledger holds quotas
C8_Witness ==
    \E p \in Procs :
        /\ pc[p] = "done"
        /\ result[p] = PermissionDenied
        /\ DOMAIN quotas # {}
        /\ resources # {}

\* --------------------------------------------------------------- hierarchy
\* the hierarchy rule: what a parent of this type and team may allocate to
Allowed(parentType, parentTeam, type, target) ==
    \/ parentType = QuotaTypeOrganization /\ type \in {QuotaTypeOrganization, QuotaTypeTeam}
    \/ /\ parentType = QuotaTypeTeam /\ type = QuotaTypeTeam
       /\ parentTeam # Nil /\ target = parentTeam

\* validateAllocationRules accepts what the rule allows, for every parent and
\* request, a team parent without team_id and an unknown type among them
RuleDecides ==
    \A parentType \in {QuotaTypeOrganization, QuotaTypeTeam, "other"},
       parentTeam \in {Nil, "", "T1", "T2"},
       type \in {QuotaTypeOrganization, QuotaTypeTeam, "other"},
       target \in {"", "T1", "T2"} :
        (validateAllocationRules([Type |-> parentType, TeamID |-> parentTeam],
                                 [Type |-> type, TeamID |-> target]) = OK)
            <=> Allowed(parentType, parentTeam, type, target)

\* every committed child stands under a parent the rule allows
ChildrenAllowed ==
    \A c \in DOMAIN quotas :
        quotas[c].ParentQuotaID # NoQuota =>
            LET parent == quotas[quotas[c].ParentQuotaID] IN
            \/ /\ parent.Type = QuotaTypeOrganization
               /\ quotas[c].Type \in {QuotaTypeOrganization, QuotaTypeTeam}
            \/ /\ parent.Type = QuotaTypeTeam /\ quotas[c].Type = QuotaTypeTeam
               /\ quotas[c].TeamID = parent.TeamID

\* an AllocateQuota that has the parent's row and the capacity: a request the
\* rule forbids fails HierarchyViolation (StorageError when db.Begin failed),
\* writes nothing and registers nothing; one it allows does not fail that way
ForbiddenFails ==
    \A p \in Procs :
        (/\ pc[p] = "fn" /\ req[p].op = "AllocateQuota" /\ pc'[p] # "fn"
         /\ Found(req[p].quotaID)
         /\ Available(req[p].quotaID) >= req[p].MB) =>
            IF Allowed(quotas[req[p].quotaID].Type, quotas[req[p].quotaID].TeamID,
                       req[p].Type, req[p].TeamID)
            THEN result'[p] # HierarchyViolation
            ELSE /\ result'[p] \in {HierarchyViolation, StorageError}
                 /\ pc'[p] = "done"
                 /\ ~committed'[p]
                 /\ UNCHANGED <<quotas, usage, audit, resources, grants>>

\* C9: AllocateQuota creates a child only under an organization parent with
\* type organization or team, or under a team parent with type team and
\* target_id the parent's team_id; any other combination fails
\* HierarchyViolation, creates no child and changes no allocated_mb.
C9_HierarchyRule == [](RuleDecides /\ ChildrenAllowed) /\ [][ForbiddenFails]_vars

\* a team quota is stored, and a request was refused by the rule
C9_Witness ==
    /\ \E c \in DOMAIN quotas :
         /\ quotas[c].Type = QuotaTypeTeam
         /\ quotas[c].TeamID = "T1"
    /\ \E p \in Procs : pc[p] = "done" /\ result[p] = HierarchyViolation

\* ------------------------------------------------------------- soft delete
\* a deleted row never changes again
DeletedIsFinal ==
    \A i \in DOMAIN quotas :
        quotas[i].Status = QuotaStatusDeleted =>
            i \in DOMAIN quotas' /\ quotas'[i] = quotas[i]

\* a request that names a deleted quota and reaches its lookup fails NotFound
\* (StorageError when db.Begin failed) and changes nothing
DeletedNotFound ==
    \A p \in Procs :
        (/\ pc[p] \in {"fn", "read"} /\ pc'[p] # pc[p]
         /\ req[p].op # "CreateQuota"
         /\ req[p].quotaID \in DOMAIN quotas
         /\ quotas[req[p].quotaID].Status = QuotaStatusDeleted) =>
            /\ pc'[p] = "done"
            /\ result'[p] = NotFound \/ (pc[p] = "fn" /\ result'[p] = StorageError)
            /\ ~committed'[p]
            /\ UNCHANGED <<quotas, usage, audit, resources, grants>>

\* C10: a deleted quota stays deleted and its total_mb, used_mb and
\* allocated_mb never change; every later AllocateQuota under it, ReleaseQuota,
\* AllocateUsage, DeallocateUsage or GetQuota that names it fails NotFound, also
\* one that was waiting for its row lock while the release committed.
C10_DeletedIsTerminal == [][DeletedIsFinal /\ DeletedNotFound]_vars

\* the last commit the bound allows was the release, and a request that names
\* the released quota had been called before it and is at its lookup
C10_Witness ==
    \E p \in Procs :
        /\ pc[p] = "fn"
        /\ req[p].quotaID \in DOMAIN quotas
        /\ quotas[req[p].quotaID].Status = QuotaStatusDeleted
        /\ Len(audit) = MaxCommits
        /\ audit[MaxCommits].ActionType = "release"
        /\ audit[MaxCommits].QuotaID = req[p].quotaID

\* ----------------------------------------------------------------- release
\* the commit of a ReleaseQuota of a quota with a parent takes the quota's
\* total_mb off the parent's allocated_mb and changes nothing else of the parent
ReleaseReturns ==
    \A p \in Procs :
        (/\ pc[p] = "commit" /\ committed'[p] /\ req[p].op = "ReleaseQuota"
         /\ quotas[req[p].quotaID].ParentQuotaID # NoQuota) =>
            LET quota == quotas[req[p].quotaID]
                parent == quotas[quota.ParentQuotaID]
            IN  quotas'[quota.ParentQuotaID] =
                    [parent EXCEPT !.AllocatedMB = @ - quota.TotalMB,
                                   !.AvailableMB = @ + quota.TotalMB]

\* the commit of an AllocateQuota leaves the parent such that taking the
\* child's total_mb off its allocated_mb gives the parent as it was
AllocateIsUndone ==
    \A p \in Procs :
        (pc[p] = "commit" /\ committed'[p] /\ req[p].op = "AllocateQuota") =>
            LET parent == quotas'[req[p].quotaID]
                child == quotas'[req[p].newID]
            IN  /\ child.ParentQuotaID = req[p].quotaID
                /\ [parent EXCEPT !.AllocatedMB = @ - child.TotalMB,
                                  !.AvailableMB = @ + child.TotalMB]
                     = quotas[req[p].quotaID]

\* C11: a successful ReleaseQuota of a quota with a parent lowers the parent's
\* allocated_mb by exactly the quota's total_mb and changes no other capacity
\* field of the parent, so an AllocateQuota followed by the ReleaseQuota of its
\* child gives the parent back its total, used, allocated and available.
C11_ReleaseRestores == [][ReleaseReturns /\ AllocateIsUndone]_vars

\* a child was released and its parent has all of its total_mb available again
C11_Witness ==
    /\ Len(audit) > 0
    /\ audit[Len(audit)].ActionType = "release"
    /\ LET quota == quotas[audit[Len(audit)].QuotaID] IN
       /\ quota.ParentQuotaID # NoQuota
       /\ quota.TotalMB > 0
       /\ quotas[quota.ParentQuotaID].AvailableMB = quotas[quota.ParentQuotaID].TotalMB

\* a committed ReleaseQuota released a quota without usage and allocations
ReleasedWasIdle ==
    \A p \in Procs :
        (pc[p] = "commit" /\ committed'[p] /\ req[p].op = "ReleaseQuota") =>
            /\ quotas[req[p].quotaID].UsedMB = 0
            /\ quotas[req[p].quotaID].AllocatedMB = 0
            /\ quotas'[req[p].quotaID].Status = QuotaStatusDeleted

\* a ReleaseQuota that has the quota's row: with usage or allocations it fails
\* BusyResource (StorageError when db.Begin failed) and changes nothing, so the
\* quota stays active and its parent keeps its allocated_mb; without, it does
\* not fail that way
BusyFails ==
    \A p \in Procs :
        (/\ pc[p] = "fn" /\ req[p].op = "ReleaseQuota" /\ pc'[p] # "fn"
         /\ Found(req[p].quotaID)) =>
            IF quotas[req[p].quotaID].UsedMB > 0 \/ quotas[req[p].quotaID].AllocatedMB > 0
            THEN /\ result'[p] \in {BusyResource, StorageError}
                 /\ pc'[p] = "done"
                 /\ ~committed'[p]
                 /\ UNCHANGED <<quotas, usage, audit, resources, grants>>
            ELSE result'[p] # BusyResource

\* C12: ReleaseQuota succeeds only on a quota with used_mb = 0 and
\* allocated_mb = 0; on a quota with usage or allocations it fails
\* BusyResource, the quota stays active and the parent's allocated_mb is
\* unchanged.
C12_ReleaseOnlyIdle == [][ReleasedWasIdle /\ BusyFails]_vars

\* a release was refused and the ledger holds an active child in use
C12_Witness ==
    \E p \in Procs, i \in DOMAIN quotas :
        /\ pc[p] = "done" /\ result[p] = BusyResource
        /\ quotas[i].ParentQuotaID # NoQuota
        /\ quotas[i].Status = QuotaStatusActive
        /\ quotas[i].UsedMB > 0
        /\ quotas[quotas[i].ParentQuotaID].AllocatedMB = quotas[i].TotalMB

\* ------------------------------------------------------------------- usage
\* the committed row of quota i with used_mb changed by delta
WithUsed(i, delta) ==
    [quotas[i] EXCEPT !.UsedMB = @ + delta, !.AvailableMB = @ - delta]

\* an AllocateUsage of a positive amount that has the quota's row fails
\* InsufficientCapacity (StorageError when db.Begin failed) without a change when
\* total_mb - used_mb - allocated_mb is below the amount, and not that way when
\* the amount fits
UsageCapacityDecides ==
    \A p \in Procs :
        (/\ pc[p] = "fn" /\ req[p].op = "AllocateUsage" /\ pc'[p] # "fn"
         /\ req[p].MB > 0 /\ Found(req[p].quotaID)) =>
            LET q == quotas[req[p].quotaID] IN
            IF q.TotalMB - q.UsedMB - q.AllocatedMB < req[p].MB
            THEN /\ result'[p] \in {InsufficientCapacity, StorageError}
                 /\ pc'[p] = "done"
                 /\ ~committed'[p]
                 /\ UNCHANGED <<quotas, usage, audit, resources, grants>>
            ELSE result'[p] # InsufficientCapacity

\* the commit of an AllocateUsage raises used_mb of its quota by the amount and
\* changes no other field and no other row
UsageRaisesUsed ==
    \A p \in Procs :
        (pc[p] = "commit" /\ committed'[p] /\ req[p].op = "AllocateUsage") =>
            quotas' = [quotas EXCEPT ![req[p].quotaID] = WithUsed(req[p].quotaID, req[p].MB)]

\* C13: an authorized AllocateUsage with usage_mb > 0 on a quota that is not
\* deleted fails InsufficientCapacity exactly when total_mb - used_mb -
\* allocated_mb < usage_mb on the locked committed row; otherwise it raises
\* used_mb by exactly usage_mb and leaves total_mb and allocated_mb unchanged.
C13_AllocateUsage == [][UsageCapacityDecides /\ UsageRaisesUsed]_vars

\* a usage took the last of the quota's capacity and another AllocateUsage on
\* the same quota, called before, is at its check with nothing left
C13_Witness ==
    \E p \in Procs :
        /\ pc[p] = "fn" /\ req[p].op = "AllocateUsage" /\ req[p].MB > 0
        /\ Found(req[p].quotaID)
        /\ Available(req[p].quotaID) < req[p].MB
        /\ Len(audit) = MaxCommits
        /\ audit[MaxCommits].ActionType = "usage_allocate"
        /\ audit[MaxCommits].QuotaID = req[p].quotaID

\* a DeallocateUsage that has the quota's row fails ValidationError
\* (StorageError when db.Begin failed) without a change when the amount is above
\* used_mb, and not that way otherwise
DeallocateDecides ==
    \A p \in Procs :
        (/\ pc[p] = "fn" /\ req[p].op = "DeallocateUsage" /\ pc'[p] # "fn"
         /\ Found(req[p].quotaID)) =>
            IF quotas[req[p].quotaID].UsedMB < req[p].MB
            THEN /\ result'[p] \in {ValidationError, StorageError}
                 /\ pc'[p] = "done"
                 /\ ~committed'[p]
                 /\ UNCHANGED <<quotas, usage, audit, resources, grants>>
            ELSE result'[p] # ValidationError

\* the commit of a DeallocateUsage lowers used_mb of its quota by the amount and
\* changes no other field and no other row
DeallocateLowersUsed ==
    \A p \in Procs :
        (pc[p] = "commit" /\ committed'[p] /\ req[p].op = "DeallocateUsage") =>
            /\ req[p].MB <= quotas[req[p].quotaID].UsedMB
            /\ quotas' = [quotas EXCEPT ![req[p].quotaID] = WithUsed(req[p].quotaID, -req[p].MB)]

UsedNeverNegative == \A i \in DOMAIN quotas : quotas[i].UsedMB >= 0

\* C14: a DeallocateUsage with usage_mb above the quota's used_mb fails
\* ValidationError and changes nothing; otherwise it lowers used_mb by exactly
\* usage_mb; used_mb never becomes negative, also when two DeallocateUsage
\* calls race on one quota.
C14_DeallocateUsage ==
    /\ []UsedNeverNegative
    /\ [][DeallocateDecides /\ DeallocateLowersUsed]_vars

\* two DeallocateUsage calls race for the usage that only one of them can give
\* back: one has written and holds the row, the other waits
C14_Witness ==
    \E p, q \in Procs :
        /\ p # q
        /\ pc[p] = "commit" /\ req[p].op = "DeallocateUsage"
        /\ pc[q] = "fn" /\ req[q].op = "DeallocateUsage"
        /\ req[p].quotaID = req[q].quotaID
        /\ req[p].quotaID \in held[p]
        /\ req[p].MB > 0 /\ req[q].MB > 0
        /\ quotas[req[p].quotaID].UsedMB >= req[p].MB
        /\ quotas[req[p].quotaID].UsedMB >= req[q].MB
        /\ quotas[req[p].quotaID].UsedMB < req[p].MB + req[q].MB

\* the commit of an AllocateUsage leaves its quota such that a DeallocateUsage
\* of the same amount is not refused and gives the row as it was
UsageIsUndone ==
    \A p \in Procs :
        (pc[p] = "commit" /\ committed'[p] /\ req[p].op = "AllocateUsage") =>
            LET after == quotas'[req[p].quotaID] IN
            /\ ~(after.UsedMB < req[p].MB)
            /\ [after EXCEPT !.UsedMB = @ - req[p].MB, !.AvailableMB = @ + req[p].MB]
                 = quotas[req[p].quotaID]

\* C15: a successful AllocateUsage of n MB followed by DeallocateUsage of n MB
\* on the same quota, no other usage operation between them, succeeds and
\* leaves used_mb, allocated_mb and total_mb as before the pair; a further
\* DeallocateUsage above what is in use fails ValidationError.
C15_UsageRoundTrip ==
    [][UsageIsUndone /\ DeallocateLowersUsed /\ DeallocateDecides]_vars

\* usage was allocated and given back, the journal holds the pair, and a second
\* DeallocateUsage was refused
C15_Witness ==
    /\ Len(usage) = 2
    /\ usage[1].Operation = OperationAllocate
    /\ usage[2].Operation = OperationDeallocate
    /\ usage[1].QuotaID = usage[2].QuotaID
    /\ usage[1].ResourceID = usage[2].ResourceID
    /\ usage[1].UsageMB = usage[2].UsageMB
    /\ quotas[usage[1].QuotaID].UsedMB = 0
    /\ \E p \in Procs : pc[p] = "done" /\ result[p] = ValidationError

UsageOps == {"AllocateUsage", "DeallocateUsage"}

\* no usage request with an amount of zero or less gets to its commit, and no
\* usage row holds such an amount
NoEmptyUsage ==
    /\ \A p \in Procs : pc[p] = "commit" /\ req[p].op \in UsageOps => req[p].MB > 0
    /\ \A k \in 1..Len(usage) : usage[k].UsageMB > 0

\* a usage request with an amount of zero or less ends in fn with an error
\* and changes nothing
EmptyUsageFails ==
    \A p \in Procs :
        (/\ pc[p] = "fn" /\ req[p].op \in UsageOps /\ pc'[p] # "fn"
         /\ req[p].MB <= 0) =>
            /\ pc'[p] = "done"
            /\ result'[p] \notin {OK, Nil}
            /\ ~committed'[p]
            /\ UNCHANGED <<quotas, usage, audit, resources, grants>>

\* C16: AllocateUsage and DeallocateUsage with usage_mb <= 0 fail and leave
\* used_mb, quota_usage and quota_audit_logs unchanged.
C16_EmptyUsageRejected == []NoEmptyUsage /\ [][EmptyUsageFails]_vars

\* a DeallocateUsage of a negative amount, authorized, is at the checks that
\* let it pass: the quota has room for more
C16_Witness ==
    \E p \in Procs :
        /\ pc[p] = "fn" /\ req[p].op = "DeallocateUsage" /\ req[p].MB < 0
        /\ Found(req[p].quotaID)
        /\ Available(req[p].quotaID) > 0

\* ---------------------------------------------------------------- new rows
\* the commit of an AllocateQuota adds one row, the child, with the fields the
\* request and the parent give it, raises the parent's allocated_mb by the
\* amount and changes no other row
ChildAdded ==
    \A p \in Procs :
        (pc[p] = "commit" /\ committed'[p] /\ req[p].op = "AllocateQuota") =>
            LET r == req[p]
                parent == quotas[r.quotaID]
                child == quotas'[r.newID]
            IN  /\ r.newID \notin DOMAIN quotas
                /\ DOMAIN quotas' = DOMAIN quotas \cup {r.newID}
                /\ child.ID = r.newID
                /\ child.Type = r.Type
                /\ child.TotalMB = r.MB
                /\ child.UsedMB = 0 /\ child.AllocatedMB = 0
                /\ child.AvailableMB = r.MB
                /\ child.ParentQuotaID = r.quotaID
                /\ child.Level = parent.Level + 1
                /\ child.Path = Append(parent.Path, r.newID)
                /\ child.Status = QuotaStatusActive
                /\ child.OwnerID = parent.OwnerID
                /\ child.OrganizationID = parent.OrganizationID
                /\ child.TeamID = IF r.Type = QuotaTypeTeam THEN r.TeamID ELSE parent.TeamID
                /\ quotas'[r.quotaID] = [parent EXCEPT !.AllocatedMB = @ + r.MB,
                                                       !.AvailableMB = @ - r.MB]
                /\ \A i \in DOMAIN quotas \ {r.quotaID} : quotas'[i] = quotas[i]

\* C17: a successful AllocateQuota adds exactly one child with total_mb =
\* allocate_mb, used_mb = allocated_mb = 0, the parent as parent, status
\* active, the parent's owner (not the caller), team_id = target_id for a team
\* child and the parent's team_id otherwise, and in the same commit raises the
\* parent's allocated_mb by exactly allocate_mb.
C17_AllocateAddsChild == [][ChildAdded]_vars

\* a team child allocated under an organization quota by a caller who is not
\* the owner: it has the owner of its parent and the team of the request
C17_Witness ==
    \E k \in 1..Len(audit) :
        /\ audit[k].ActionType = "allocate"
        /\ LET child == quotas[audit[k].QuotaID] IN
           /\ child.ParentQuotaID # NoQuota
           /\ child.OwnerID # audit[k].ActorUserID
           /\ child.OwnerID = quotas[child.ParentQuotaID].OwnerID
           /\ quotas[child.ParentQuotaID].Type = QuotaTypeOrganization
           /\ child.Type = QuotaTypeTeam
           /\ child.TeamID = "T1"
           /\ quotas[child.ParentQuotaID].AllocatedMB = child.TotalMB

\* the commit of a CreateQuota adds one row under an id that no row has, a
\* root with the fields of the request and the caller, and changes no other row
RootAdded ==
    \A p \in Procs :
        (pc[p] = "commit" /\ committed'[p] /\ req[p].op = "CreateQuota") =>
            LET r == req[p]
                root == quotas'[r.newID]
            IN  /\ r.newID \notin DOMAIN quotas
                /\ DOMAIN quotas' = DOMAIN quotas \cup {r.newID}
                /\ root.ID = r.newID
                /\ root.Type = r.Type
                /\ root.TeamID = r.TeamID
                /\ root.TotalMB = r.MB
                /\ root.UsedMB = 0 /\ root.AllocatedMB = 0
                /\ root.AvailableMB = r.MB
                /\ root.ParentQuotaID = NoQuota
                /\ root.Level = 0
                /\ root.Path = <<r.newID>>
                /\ root.OwnerID = r.user.UserID
                /\ root.OrganizationID = r.user.OrganizationID
                /\ root.Status = QuotaStatusActive
                /\ \A i \in DOMAIN quotas : quotas'[i] = quotas[i]

\* C18: a successful CreateQuota adds exactly one quota with a fresh id, no
\* parent, level 0, path "/" + id, used_mb = allocated_mb = 0, total_mb of the
\* request, the caller as owner, the caller's organization and status active,
\* and changes no existing quota.
C18_CreateAddsRoot == [][RootAdded]_vars

\* two roots of two callers, each with its caller's organization
C18_Witness ==
    \E i, j \in DOMAIN quotas :
        /\ quotas[i].ParentQuotaID = NoQuota /\ quotas[j].ParentQuotaID = NoQuota
        /\ quotas[i].OwnerID = "u1" /\ quotas[i].OrganizationID = "o1"
        /\ quotas[j].OwnerID = "u2" /\ quotas[j].OrganizationID = "o2"
        /\ quotas[j].Type = QuotaTypeTeam

\* ----------------------------------------------------------- return values
\* C19: the quota a successful CreateQuota returns carries available_mb =
\* total_mb, and the child a successful AllocateQuota returns carries
\* available_mb = total_mb - used_mb - allocated_mb (= allocate_mb).
C19_ReturnedAvailable ==
    \A p \in Procs :
        (pc[p] = "done" /\ result[p] = OK /\ committed[p] /\ ret[p] # NoRow) =>
            /\ ret[p].AvailableMB = ret[p].TotalMB - ret[p].UsedMB - ret[p].AllocatedMB
            /\ ret[p].AvailableMB = quotas[ret[p].ID].TotalMB


\* ------------------------------------------------- validation of CreateQuota
\* the request breaks one of the preconditions of CreateQuota, stated on the
\* request alone
InvalidCreate(r) ==
    \/ r.MB <= 0
    \/ r.Type \notin {QuotaTypeOrganization, QuotaTypeTeam}
    \/ (r.Type = QuotaTypeTeam /\ r.TeamID \in {Nil, ""})

\* the step that validates an invalid CreateQuota ends the call with
\* ValidationError, nothing committed and nothing returned, and leaves every
\* table and every transaction as it was: no transaction was opened
InvalidCreateFails ==
    \A p \in Procs :
        (pc[p] = "validate" /\ pc'[p] # "validate" /\ InvalidCreate(req[p])) =>
            /\ pc'[p] = "done"
            /\ result'[p] = ValidationError
            /\ ~committed'[p] /\ ret'[p] = NoRow
            /\ txq[p] = EmptyRows /\ txu[p] = <<>> /\ txa[p] = <<>> /\ held[p] = {}
            /\ UNCHANGED <<quotas, usage, audit, resources, grants, txq, txu, txa, held>>

\* a CreateQuota that is past its validation carries a valid request
CreateInTxIsValid ==
    \A p \in Procs :
        (req[p] # NoReq /\ req[p].op = "CreateQuota" /\ pc[p] # "validate") =>
            ~InvalidCreate(req[p])

\* C20: a CreateQuota with total_mb <= 0, with a type other than organization
\* or team, or with type team and a nil or empty team_id fails ValidationError
\* before any transaction is opened and adds no quota and no audit log.
C20_InvalidCreateRejected == []CreateInTxIsValid /\ [][InvalidCreateFails]_vars

\* with a root stored, a CreateQuota of type team with an empty team_id stands
\* at its validation
C20_Witness ==
    \E p \in Procs :
        /\ pc[p] = "validate"
        /\ req[p].Type = QuotaTypeTeam /\ req[p].TeamID = ""
        /\ DOMAIN quotas # {} /\ Len(audit) > 0

\* ---------------------------------------------------------------- GetQuota
\* a returned quota whose AvailableMB was computed from its other fields
Computed(q) == q.AvailableMB = q.TotalMB - q.UsedMB - q.AllocatedMB

SameCapacity(a, b) ==
    /\ a.TotalMB = b.TotalMB /\ a.UsedMB = b.UsedMB /\ a.AllocatedMB = b.AllocatedMB
    /\ a.AvailableMB = b.AvailableMB

\* no step of a GetQuota changes a table or a lock, and a GetQuota holds no
\* lock and has written nothing
GetQuotaReadsOnly ==
    \A p \in Procs :
        (req[p].op = "GetQuota" /\ pc'[p] # pc[p]) =>
            /\ UNCHANGED <<quotas, usage, audit, held, txq, txu, txa>>
            /\ held[p] = {} /\ txq[p] = EmptyRows

\* a GetQuota that succeeds returns the committed row of its target: its total_mb,
\* used_mb and allocated_mb, and available_mb computed from them
GetQuotaReturns ==
    \A p \in Procs :
        (pc[p] = "read" /\ pc'[p] = "done" /\ result'[p] = OK) =>
            /\ Found(req[p].quotaID)
            /\ ret'[p].ID = req[p].quotaID
            /\ ret'[p].TotalMB = quotas[req[p].quotaID].TotalMB
            /\ ret'[p].UsedMB = quotas[req[p].quotaID].UsedMB
            /\ ret'[p].AllocatedMB = quotas[req[p].quotaID].AllocatedMB
            /\ Computed(ret'[p])

\* a GetQuota that succeeds while the committed row is as an earlier GetQuota of
\* another request returned it, returns the same capacity fields
GetQuotaAgain ==
    \A p, q \in Procs :
        (/\ pc[p] = "read" /\ pc'[p] = "done" /\ result'[p] = OK
         /\ pc[q] = "done" /\ result[q] = OK /\ ~committed[q]
         /\ ret[q].ID = req[p].quotaID /\ Computed(ret[q])
         /\ SameCapacity(ret[q], quotas[ret[q].ID])) =>
            SameCapacity(ret'[p], ret[q])

\* C21: GetQuota changes no quota, usage row or audit log and takes no lock; it
\* returns the committed total_mb, used_mb and allocated_mb of its target with
\* available_mb = total_mb - used_mb - allocated_mb, and two GetQuota of one
\* quota with no committed change between them return the same capacity fields.
C21_GetQuotaReads == [][GetQuotaReadsOnly /\ GetQuotaReturns /\ GetQuotaAgain]_vars

\* two requests have read the same quota, in use, and hold the same answer while
\* the table is as they read it
C21_Witness ==
    \E p, q \in Procs :
        /\ p # q
        /\ pc[p] = "done" /\ result[p] = OK /\ ~committed[p]
        /\ pc[q] = "done" /\ result[q] = OK /\ ~committed[q]
        /\ ret[p] # NoRow /\ ret[p] = ret[q]
        /\ ret[p].UsedMB > 0 /\ ret[p].AvailableMB > 0 /\ Computed(ret[p])
        /\ SameCapacity(ret[p], quotas[ret[p].ID])

\* ------------------------------------------------------------ auth service
\* every request has returned: no transaction is open
Quiescent == \A p \in Procs : pc[p] \in {"idle", "done"}

\* C22: in AllocateQuota the auth service is given the child's resource and the
\* admin grants only after the transaction has committed: it never holds a
\* resource or a grant for a child whose creation did not commit (stated on the
\* states in which every request has returned).
C22_GrantsAfterCommit ==
    Quiescent =>
        /\ \A id \in resources : id \in DOMAIN quotas
        /\ \A g \in grants : g[2] \in DOMAIN quotas

\* the admin grants an AllocateQuota asks the auth service for
AdminGrants(r) == {<<a, r.newID, QuotaPermissionAdmin>> : a \in r.AdminUserIDs}

\* the step of AllocateQuota's fn in which CreateResource registers the child:
\* whichever GrantPermission calls fail, fn goes on to the commit with the
\* child inserted, the parent's allocated_mb raised and the audit log issued,
\* and the auth service has been given grants of this request only
GrantFailureIgnored ==
    \A p \in Procs :
        (/\ pc[p] = "fn" /\ req[p].op = "AllocateQuota"
         /\ req[p].newID \notin resources /\ req[p].newID \in resources') =>
            LET r == req[p]
            IN  /\ pc'[p] = "commit"
                /\ r.newID \in DOMAIN txq'[p]
                /\ txq'[p][r.quotaID].AllocatedMB = quotas[r.quotaID].AllocatedMB + r.MB
                /\ \/ txFailed'[p]
                   \/ \E k \in 1..Len(txa'[p]) : txa'[p][k] = AuditEntry(r)
                /\ grants \subseteq grants'
                /\ grants' \ grants \subseteq AdminGrants(r)

\* the commit of an AllocateQuota succeeds whatever was granted: the child is
\* stored, the parent's allocated_mb raised and the audit log written
PartlyGrantedCommits ==
    \A p \in Procs :
        (pc[p] = "commit" /\ req[p].op = "AllocateQuota" /\ committed'[p]) =>
            LET r == req[p]
            IN  /\ result'[p] = OK
                /\ r.newID \in DOMAIN quotas' /\ quotas'[r.newID].ParentQuotaID = r.quotaID
                /\ quotas'[r.quotaID].AllocatedMB = quotas[r.quotaID].AllocatedMB + r.MB
                /\ audit' = Append(audit, AuditEntry(r))

\* C23: when GrantPermission fails for one or all of admin_user_ids,
\* AllocateQuota still succeeds: the child is stored, the parent's allocated_mb
\* is raised, the audit log is written, and the grants of the remaining ids
\* are still attempted.
C23_GrantFailureTolerated == [][GrantFailureIgnored /\ PartlyGrantedCommits]_vars

\* an AllocateQuota has committed and returned its child although the grant to
\* u2 failed, and u3 was granted all the same
C23_Witness ==
    \E p \in Procs :
        /\ pc[p] = "done" /\ result[p] = OK /\ committed[p]
        /\ ret[p] # NoRow
        /\ ret[p].ParentQuotaID # NoQuota
        /\ ret[p].ID \in DOMAIN quotas
        /\ quotas[ret[p].ParentQuotaID].AllocatedMB >= ret[p].TotalMB
        /\ audit[Len(audit)].QuotaID = ret[p].ID
        /\ <<"u3", ret[p].ID, QuotaPermissionAdmin>> \in grants
        /\ <<"u2", ret[p].ID, QuotaPermissionAdmin>> \notin grants

\* ------------------------------------------------------------ organization
\* every quota with a parent has its parent's organization_id, and with it the
\* organization_id of the root of its path
SameOrganization ==
    \A i \in DOMAIN quotas :
        quotas[i].ParentQuotaID # NoQuota =>
            /\ quotas[i].ParentQuotaID \in DOMAIN quotas
            /\ quotas[i].OrganizationID = quotas[quotas[i].ParentQuotaID].OrganizationID
            /\ quotas[i].Path[1] \in DOMAIN quotas
            /\ quotas[i].OrganizationID = quotas[quotas[i].Path[1]].OrganizationID

\* no step changes the organization_id of a stored quota
OrganizationKept ==
    \A i \in DOMAIN quotas :
        i \in DOMAIN quotas' /\ quotas'[i].OrganizationID = quotas[i].OrganizationID

\* C24: in every committed state a quota with a parent has the organization_id
\* of its parent, so the quotas of one tree share the organization_id the root
\* got at CreateQuota, and no operation changes a quota's organization_id.
C24_OneOrganization == []SameOrganization /\ [][OrganizationKept]_vars

\* a child with organization o1 that an actor of organization o2 allocated
C24_Witness ==
    \E i \in DOMAIN quotas, k \in 1..Len(audit) :
        /\ quotas[i].ParentQuotaID # NoQuota
        /\ quotas[i].OrganizationID = "o1"
        /\ audit[k].QuotaID = i /\ audit[k].ActionType = "allocate"
        /\ audit[k].ActorUserID = "u2"

\* -------------------------------------------------------------------- team
\* every quota under a team quota, at any depth, is a team quota of that team
TeamSubtree ==
    \A i \in DOMAIN quotas :
        \A k \in 1..(Len(quotas[i].Path) - 1) :
            LET a == quotas[i].Path[k]
            IN  (a \in DOMAIN quotas /\ quotas[a].Type = QuotaTypeTeam) =>
                    /\ quotas[i].Type = QuotaTypeTeam
                    /\ quotas[i].TeamID = quotas[a].TeamID

\* every child of a team quota is a team quota with its parent's team_id
TeamChildren ==
    \A i \in DOMAIN quotas :
        (/\ quotas[i].ParentQuotaID # NoQuota
         /\ quotas[quotas[i].ParentQuotaID].Type = QuotaTypeTeam) =>
            /\ quotas[i].Type = QuotaTypeTeam
            /\ quotas[i].TeamID = quotas[quotas[i].ParentQuotaID].TeamID

\* no step changes the type or the team_id of a stored quota
TeamKept ==
    \A i \in DOMAIN quotas :
        /\ i \in DOMAIN quotas'
        /\ quotas'[i].TeamID = quotas[i].TeamID
        /\ quotas'[i].Type = quotas[i].Type

\* C25: in every committed state every child of a team quota is a team quota
\* with its parent's team_id, so the whole subtree below a team quota carries
\* one team_id, and a quota's team_id never changes after creation.
C25_OneTeam == [](TeamChildren /\ TeamSubtree) /\ [][TeamKept]_vars

\* a team quota of team T1 with a child
C25_Witness ==
    \E i, j \in DOMAIN quotas :
        /\ quotas[i].Type = QuotaTypeTeam /\ quotas[i].TeamID = "T1"
        /\ quotas[j].ParentQuotaID = i
        /\ quotas[j].TeamID = "T1"

\* --------------------------------------------------------------- hierarchy
\* a quota without parent is at level 0 with path "/" + id; any other quota
\* has a stored parent, its parent's level plus one and its parent's path
\* followed by "/" + id
LevelAndPath ==
    \A i \in DOMAIN quotas :
        LET q == quotas[i]
        IN  /\ q.ID = i
            /\ (q.ParentQuotaID = NoQuota) <=> (q.Level = 0)
            /\ q.ParentQuotaID = NoQuota => q.Path = <<i>>
            /\ q.ParentQuotaID # NoQuota =>
                   /\ q.ParentQuotaID \in DOMAIN quotas
                   /\ q.Level = quotas[q.ParentQuotaID].Level + 1
                   /\ q.Path = Append(quotas[q.ParentQuotaID].Path, i)

\* following parent_quota_id from i ends at a quota without parent within n steps
RECURSIVE ReachesRoot(_, _)
ReachesRoot(i, n) ==
    IF quotas[i].ParentQuotaID = NoQuota THEN TRUE
    ELSE IF n = 0 \/ quotas[i].ParentQuotaID \notin DOMAIN quotas THEN FALSE
    ELSE ReachesRoot(quotas[i].ParentQuotaID, n - 1)

\* the parent relation has no cycle
Forest == \A i \in DOMAIN quotas : ReachesRoot(i, MaxQuotas)

\* C26: in every committed state a quota has no parent iff its level is 0, and
\* then its path is "/" + id; otherwise its parent is stored, its level is the
\* parent's level + 1 and its path the parent's path + "/" + id; the parent
\* relation is a forest after any sequence of operations.
C26_LevelPathForest == LevelAndPath /\ Forest

\* a root, its child and its grandchild
C26_Witness ==
    \E i, j, k \in DOMAIN quotas :
        /\ quotas[i].Level = 0
        /\ quotas[j].ParentQuotaID = i /\ quotas[j].Level = 1
        /\ quotas[k].ParentQuotaID = j /\ quotas[k].Level = 2
        /\ quotas[k].Path = <<i, j, k>>

\* ---------------------------------------------------------------- deadlock
\* the row whose lock the next statement of p asks for: the target of the
\* SELECT ... FOR UPDATE that opens fn, or the parent that ReleaseQuota updates
WaitsFor(p) ==
    IF /\ pc[p] = "fn"
       /\ req[p].op \in {"AllocateQuota", "ReleaseQuota", "AllocateUsage", "DeallocateUsage"}
       /\ Found(req[p].quotaID)
    THEN {req[p].quotaID}
    ELSE IF pc[p] = "release" /\ row[p].ParentQuotaID # NoQuota
    THEN {row[p].ParentQuotaID}
    ELSE {}

\* p waits for a row lock that o holds
Blocked(p, o) == o # p /\ WaitsFor(p) \cap held[o] # {}

\* the transactions p waits for, directly or through at most n others
RECURSIVE BlockedBy(_, _)
BlockedBy(p, n) ==
    LET direct == {o \in Procs : Blocked(p, o)}
    IN  IF n = 0 THEN direct
        ELSE direct \cup UNION {BlockedBy(o, n - 1) : o \in direct}

\* no cycle of transactions each waiting for a lock the next one holds
NoWaitCycle == \A p \in Procs : p \notin BlockedBy(p, NumProcs)

\* a row lock is held by an open transaction only: one that is about to commit
\* or a ReleaseQuota about to update the parent
LockHolderRuns == \A p \in Procs : held[p] # {} => pc[p] \in {"commit", "release"}

\* a transaction that holds a lock and waits for another is a ReleaseQuota that
\* holds its target and waits for that target's parent
WaitsUpward ==
    \A p \in Procs :
        (held[p] # {} /\ WaitsFor(p) # {}) =>
            /\ held[p] = {row[p].ID}
            /\ WaitsFor(p) = {quotas[row[p].ID].ParentQuotaID}

\* C27: no interleaving of concurrent requests reaches a deadlock: there is
\* never a cycle of transactions each waiting for a row lock held by the next,
\* in particular not between a ReleaseQuota of a child (it locks the child,
\* then updates the parent) and requests that lock the parent or a sibling.
C27_NoDeadlock == NoWaitCycle /\ LockHolderRuns /\ WaitsUpward

\* a ReleaseQuota holds the child and waits for the parent, whose lock a request
\* on the parent holds until it commits
C27_Witness ==
    \E p, o \in Procs :
        /\ pc[p] = "release" /\ held[p] # {}
        /\ Blocked(p, o)
        /\ pc[o] = "commit"
        /\ ~Blocked(o, p)

\* -------------------------------------------------------- disjoint subtrees
\* p runs a request on a stored target
OnTarget(p) ==
    /\ pc[p] \notin {"idle", "done"}
    /\ req[p].op \in {"AllocateQuota", "ReleaseQuota", "AllocateUsage", "DeallocateUsage",
                      "GetQuota"}
    /\ req[p].quotaID \in DOMAIN quotas

\* neither quota is the other or an ancestor of the other
Disjoint(i, j) ==
    /\ \A k \in 1..Len(quotas[j].Path) : quotas[j].Path[k] # i
    /\ \A k \in 1..Len(quotas[i].Path) : quotas[i].Path[k] # j

\* two ReleaseQuota of children of one parent
SiblingReleases(p, q) ==
    /\ req[p].op = "ReleaseQuota" /\ req[q].op = "ReleaseQuota"
    /\ quotas[req[p].quotaID].ParentQuotaID # NoQuota
    /\ quotas[req[p].quotaID].ParentQuotaID = quotas[req[q].quotaID].ParentQuotaID

\* C28: two concurrent requests whose targets lie in disjoint subtrees (neither
\* target is an ancestor of the other, siblings included) never wait for each
\* other: neither needs a row lock that the other holds.
C28_DisjointNeverWait ==
    \A p, q \in Procs :
        (p # q /\ OnTarget(p) /\ OnTarget(q) /\ Disjoint(req[p].quotaID, req[q].quotaID)) =>
            ~Blocked(p, q) /\ ~Blocked(q, p)

\* C28 as amended: two concurrent requests whose targets lie in disjoint
\* subtrees never wait for each other, unless both are ReleaseQuota of children
\* of one parent: each of these updates the parent and needs its row lock.
C28_DisjointWaitOnlySiblings ==
    \A p, q \in Procs :
        (/\ p # q /\ OnTarget(p) /\ OnTarget(q)
         /\ Disjoint(req[p].quotaID, req[q].quotaID)
         /\ ~SiblingReleases(p, q)) =>
            ~Blocked(p, q) /\ ~Blocked(q, p)

\* a ReleaseQuota that holds its target and the parent, and a usage request that
\* holds a sibling, both about to commit
C28_Witness ==
    \E p, q \in Procs :
        /\ p # q
        /\ pc[p] = "commit" /\ req[p].op = "ReleaseQuota"
        /\ quotas[req[p].quotaID].ParentQuotaID \in held[p]
        /\ pc[q] = "commit" /\ req[q].op = "AllocateUsage"
        /\ quotas[req[q].quotaID].ParentQuotaID = quotas[req[p].quotaID].ParentQuotaID
        /\ req[q].quotaID \in held[q]
        /\ Disjoint(req[p].quotaID, req[q].quotaID)

\* -------------------------------------------------------------- timestamps
\* C29: for each quota, the created_at of its audit logs and of its usage rows
\* orders them as their transactions committed: rows of a transaction that
\* committed earlier on the quota carry no later created_at than rows of one
\* that committed later on it.
C29_TimestampsFollowCommits ==
    /\ \A i, j \in 1..Len(audit) :
           (i < j /\ audit[i].QuotaID = audit[j].QuotaID) => auditAt[i] <= auditAt[j]
    /\ \A i, j \in 1..Len(usage) :
           (i < j /\ usage[i].QuotaID = usage[j].QuotaID) => usageAt[i] <= usageAt[j]

\* -------------------------------------------------------------- append only
\* s is the beginning of t
Prefix(s, t) == Len(s) <= Len(t) /\ \A k \in 1..Len(s) : t[k] = s[k]

\* no step removes a row of quotas, quota_usage or quota_audit_logs, or changes
\* a usage row or an audit log or its created_at
RowsKept ==
    /\ DOMAIN quotas \subseteq DOMAIN quotas'
    /\ Prefix(usage, usage') /\ Prefix(usageAt, usageAt')
    /\ Prefix(audit, audit') /\ Prefix(auditAt, auditAt')

\* C30: across any sequence of operations no row is ever removed from table
\* quotas, from the usage journal or from the audit log, and a usage row or audit
\* log never changes; the records of a quota are still there after the quota
\* has been released.
C30_AppendOnly == [][RowsKept]_vars

\* a released quota, still stored, with its usage rows and its audit logs
C30_Witness ==
    \E i \in DOMAIN quotas :
        /\ quotas[i].Status = QuotaStatusDeleted
        /\ \E k \in 1..Len(usage) : usage[k].QuotaID = i
        /\ \E k \in 1..Len(audit) : audit[k].QuotaID = i /\ audit[k].ActionType = "allocate"
        /\ audit[Len(audit)].QuotaID = i /\ audit[Len(audit)].ActionType = "release"

\* ------------------------------------------------------------ organization
\* the step on which a request on a stored quota ends in success: the commit of
\* its transaction, or the read of a GetQuota
Succeeds(p) ==
    /\ req[p].op \in {"AllocateQuota", "ReleaseQuota", "AllocateUsage", "DeallocateUsage",
                      "GetQuota"}
    /\ pc'[p] = "done" /\ result'[p] = OK
    /\ committed'[p] \/ req[p].op = "GetQuota"

\* C31: access across organizations is blocked: no AllocateQuota, ReleaseQuota,
\* AllocateUsage, DeallocateUsage or GetQuota succeeds for an actor whose
\* OrganizationID differs from the organization_id of the target quota, whatever
\* CheckPermission answers.
C31_OrganizationIsolation ==
    [][\A p \in Procs :
           Succeeds(p) =>
               /\ req[p].quotaID \in DOMAIN quotas
               /\ req[p].user.OrganizationID = quotas[req[p].quotaID].OrganizationID]_vars


\* ------------------------------------------------------- operation history
\* the audit rows a step appends
Appended == {audit'[k] : k \in (Len(audit) + 1)..Len(audit')}

\* the stored quotas whose used_mb, allocated_mb or status a step changes
Touched ==
    {i \in DOMAIN quotas : \/ quotas'[i].UsedMB # quotas[i].UsedMB
                           \/ quotas'[i].AllocatedMB # quotas[i].AllocatedMB
                           \/ quotas'[i].Status # quotas[i].Status}

\* C32: the audit rows of a quota are its complete operation history: every
\* commit that changes a quota's used_mb, allocated_mb or status appends an
\* audit row whose quota_id is that quota, the parent whose allocated_mb an
\* AllocateQuota or ReleaseQuota of a child changes included.
C32_CompleteHistory ==
    [][\A i \in Touched : \E a \in Appended : a.QuotaID = i]_vars


\* ---------------------------------------------------------------- progress
\* request p has been called and has not returned
Running(p) == pc[p] \notin {"idle", "done"}

\* concurrent requests on the root and its child, up to one more commit
Contended == Inputs({User1}, {<<"organization", "nil">>}, {3}, {<<"organization", "">>},
                    {1}, {{}}, {1}, {Allow}, BOOLEAN, MaxCommits, TRUE)

\* a step of a request that has been called: the answer of CheckPermission, a
\* statement of its transaction, its commit or its rollback
TxStep(p) == Running(p) /\ Step(p, Contended)

\* the requests on the tree, every called request being run on: the auth
\* service answers, and a transaction that can take its next step takes it
NextFair == \E p \in Procs : Step(p, Contended)
SpecFair == InitTree /\ [][NextFair]_vars /\ \A p \in Procs : WF_vars(TxStep(p))

ChangedRows == {i \in DOMAIN quotas' : i \notin DOMAIN quotas \/ quotas'[i] # quotas[i]}

\* row b is row a but for its allocated_mb (and the generated available_mb)
OnlyAllocated(a, b) == b = Stored([a EXCEPT !.AllocatedMB = b.AllocatedMB])

\* row b is row a but for its used_mb (and the generated available_mb)
OnlyUsed(a, b) == b = Stored([a EXCEPT !.UsedMB = b.UsedMB])

\* row b is row a but for its status
OnlyStatus(a, b) == b = [a EXCEPT !.Status = b.Status]

\* what the commit of request r may change
CommitFrame(r) ==
    CASE r.op = "CreateQuota" ->
            /\ ChangedRows = {r.newID} /\ r.newID \notin DOMAIN quotas
      [] r.op = "AllocateQuota" ->
            /\ ChangedRows = {r.newID, r.quotaID} /\ r.newID \notin DOMAIN quotas
            /\ OnlyAllocated(quotas[r.quotaID], quotas'[r.quotaID])
      [] r.op = "ReleaseQuota" ->
            /\ ChangedRows = {r.quotaID} \cup ({quotas[r.quotaID].ParentQuotaID} \ {NoQuota})
            /\ OnlyStatus(quotas[r.quotaID], quotas'[r.quotaID])
            /\ \A i \in ChangedRows \ {r.quotaID} : OnlyAllocated(quotas[i], quotas'[i])
      [] OTHER ->
            /\ ChangedRows \subseteq {r.quotaID}
            /\ OnlyUsed(quotas[r.quotaID], quotas'[r.quotaID])

\* C34: a commit changes at most two rows of quotas: AllocateQuota inserts the
\* child and changes only the parent's allocated_mb, ReleaseQuota changes only
\* the status of its quota and the allocated_mb of the parent, AllocateUsage and
\* DeallocateUsage change only the used_mb of their quota; every other row and
\* every other column of these rows is as before (available_mb is generated
\* from the three), and no other step changes a row.
C34_CommitFrame ==
    [][/\ Cardinality(ChangedRows) <= 2
       /\ DOMAIN quotas \subseteq DOMAIN quotas'
       /\ \A p \in Procs : (pc[p] = "commit" /\ committed'[p]) => CommitFrame(req[p])
       /\ ChangedRows # {} => \E p \in Procs : pc[p] = "commit" /\ committed'[p]]_vars

\* a child was released: its row is deleted and its parent's allocated_mb is
\* back at 0
C34_TwoRows ==
    \E i \in DOMAIN quotas :
        /\ quotas[i].Status = QuotaStatusDeleted /\ quotas[i].ParentQuotaID # NoQuota
        /\ quotas[quotas[i].ParentQuotaID].AllocatedMB = 0


\* ------------------------------------------------------ CreateResource fails
\* C35: when CreateResource fails in AllocateQuota the method returns that
\* error and its transaction is rolled back: the child row, the parent's
\* allocated_mb and the audit log are as before the call, no row lock or
\* written row is left, and no GrantPermission has been sent for the
\* admin_user_ids.
C35_CreateResourceFails ==
    [][\A p \in Procs :
           (result[p] # ResourceError /\ result'[p] = ResourceError) =>
               /\ pc[p] = "fn" /\ req[p].op = "AllocateQuota"
               /\ pc'[p] = "done" /\ ~committed'[p] /\ ret'[p] = NoRow
               /\ req[p].newID \notin DOMAIN quotas'
               /\ UNCHANGED <<quotas, usage, audit, grants>>
               /\ held'[p] = {} /\ txq'[p] = EmptyRows /\ txa'[p] = <<>>]_vars

\* an AllocateQuota has returned the error of CreateResource
C35_Failed == \E p \in Procs : pc[p] = "done" /\ result[p] = ResourceError /\ ~committed[p]


\* ------------------------------------------------------------ live parents
\* C36: in every committed state the parent of a quota that is not deleted is
\* stored and not deleted: whatever the interleaving of a ReleaseQuota of a
\* quota with an AllocateQuota on it or a ReleaseQuota of its children, no quota
\* is deleted while it has a child that is not.
C36_ParentAlive ==
    \A c \in DOMAIN quotas :
        (quotas[c].Status # QuotaStatusDeleted /\ quotas[c].ParentQuotaID # NoQuota) =>
            /\ quotas[c].ParentQuotaID \in DOMAIN quotas
            /\ quotas[quotas[c].ParentQuotaID].Status # QuotaStatusDeleted

\* a child was released and then its parent: both rows are deleted
C36_ReleasedUpwards ==
    \E c \in DOMAIN quotas :
        /\ quotas[c].Status = QuotaStatusDeleted /\ quotas[c].ParentQuotaID # NoQuota
        /\ quotas[quotas[c].ParentQuotaID].Status = QuotaStatusDeleted


\* ------------------------------------------------------------ conservation
\* the quotas of the tree of root that are not deleted
Tree(root) ==
    {i \in DOMAIN quotas : quotas[i].Path[1] = root /\ quotas[i].Status # QuotaStatusDeleted}

\* the capacity a quota holds itself: its usage and what it still has available
Own(i) == quotas[i].UsedMB + (quotas[i].TotalMB - quotas[i].UsedMB - quotas[i].AllocatedMB)

RECURSIVE SumOwn(_)
SumOwn(ids) ==
    IF ids = {} THEN 0
    ELSE LET i == CHOOSE x \in ids : TRUE IN Own(i) + SumOwn(ids \ {i})

RECURSIVE SumUsed(_)
SumUsed(ids) ==
    IF ids = {} THEN 0
    ELSE LET i == CHOOSE x \in ids : TRUE IN quotas[i].UsedMB + SumUsed(ids \ {i})

Roots == {i \in DOMAIN quotas : quotas[i].ParentQuotaID = NoQuota
                                /\ quotas[i].Status # QuotaStatusDeleted}

\* C37: capacity is conserved in each tree: in every committed state the
\* total_mb of a root that is not deleted is the sum, over the quotas of its tree
\* that are not deleted, of used_mb + (total_mb - used_mb - allocated_mb); so the
\* used_mb of a whole tree never add up to more than the root's total_mb.
C37_TreeConservation ==
    \A r \in Roots :
        /\ quotas[r].TotalMB = SumOwn(Tree(r))
        /\ SumUsed(Tree(r)) <= quotas[r].TotalMB

\* a root with a child, both with usage
C37_UsedTree ==
    \E r \in Roots : \E c \in Tree(r) \ {r} : quotas[r].UsedMB > 0 /\ quotas[c].UsedMB > 0


\* ------------------------------------------------------------- immutability
\* the columns no statement of QuotaService updates
Identity(q) ==
    <<q.ID, q.Type, q.TotalMB, q.ParentQuotaID, q.Level, q.Path, q.OwnerID,
      q.OrganizationID, q.TeamID>>

\* C38: once a quota is stored no step changes its id, type, total_mb,
\* parent_quota_id, level, path, owner_id, organization_id or team_id; its
\* status changes at most once, from active to deleted, in the commit of a
\* ReleaseQuota of that quota, and no quota is ever given status suspended.
C38_ImmutableIdentity ==
    [][\A i \in DOMAIN quotas :
           /\ i \in DOMAIN quotas'
           /\ Identity(quotas'[i]) = Identity(quotas[i])
           /\ quotas'[i].Status # QuotaStatusSuspended
           /\ quotas'[i].Status # quotas[i].Status =>
                /\ quotas[i].Status = QuotaStatusActive
                /\ quotas'[i].Status = QuotaStatusDeleted
                /\ \E p \in Procs : /\ pc[p] = "commit" /\ committed'[p]
                                    /\ req[p].op = "ReleaseQuota" /\ req[p].quotaID = i]_vars

\* a quota with a parent was released, and another quota was given usage
C38_ReleasedAndUsed ==
    \E i, j \in DOMAIN quotas :
        /\ quotas[i].Status = QuotaStatusDeleted /\ quotas[i].ParentQuotaID # NoQuota
        /\ quotas[j].UsedMB > 0


\* ------------------------------------------------- CreateQuota and the oracle
\* C39: CreateQuota never calls the auth service, neither CheckPermission nor
\* CreateResource: no step of it waits for or records an answer or registers a
\* resource or a grant, it fails only on an invalid request (ValidationError)
\* or a failing storage call (StorageError), and so it succeeds for any user
\* whatever the auth service would answer.
C39_CreateQuotaAsksNobody ==
    [][\A p \in Procs :
           (req[p].op = "CreateQuota" /\ pc'[p] # pc[p]) =>
               /\ pc[p] # "check" /\ pc'[p] # "check"
               /\ req[p].answer = NoAnswer
               /\ pc'[p] # "done" => req'[p] = req[p]
               /\ UNCHANGED <<resources, grants>>
               /\ pc'[p] = "done" => result'[p] \in {OK, ValidationError, StorageError}
               /\ (pc'[p] = "done" /\ result'[p] = ValidationError) =>
                      ~CreateQuotaValid(req[p])
               /\ (pc[p] = "validate" /\ CreateQuotaValid(req[p])) => pc'[p] = "fn"]_vars

\* a CreateQuota of user u2 has committed a root quota and returned it, the
\* quota not being registered as a resource of the auth service
C39_RootCreated ==
    \E p \in Procs :
        /\ pc[p] = "done" /\ result[p] = OK /\ committed[p]
        /\ ret[p].ID \in DOMAIN quotas
        /\ quotas[ret[p].ID].ParentQuotaID = NoQuota
        /\ quotas[ret[p].ID].OwnerID = "u2"
        /\ audit[Len(audit)] = [QuotaID |-> ret[p].ID, ActionType |-> "create",
                                ActorUserID |-> "u2"]
        /\ ret[p].ID \notin resources

====
